---------------------------- MODULE Spec2Model ----------------------------
(***************************************************************************)
(* Model of the hybrid log-analysis core: LogPreprocessor (feature         *)
(* extraction), AnomalyDetector (rule scorer, outlier model, combiner) and *)
(* RootCauseAnalyzer.                                                      *)
(*                                                                         *)
(* Conventions.                                                            *)
(*  - A Python dict is a TLA+ record whose DOMAIN is the set of keys that  *)
(*    are present.  A value stored in a log dict is a tagged pair:         *)
(*    <<"str", s>>, <<"none", "">> (Python None), <<"int", n>> or          *)
(*    <<"dict", r>>.                                                       *)
(*  - A Python float score is an integer number of thousandths             *)
(*    (0.8 is 800).                                                        *)
(*  - A Python call that may raise returns a record with a field raised.   *)
(***************************************************************************)
EXTENDS Integers, Sequences, FiniteSets, TLC

VARIABLES
    pc,        \* position of the call under study: "start" or "done"
    logs,      \* input batch of the call (raw logs or processed logs)
    rule_in,   \* _combine_results: the rule_results argument
    ml_in,     \* _combine_results: the ml_results argument
    ml_env,    \* behaviour of the outlier ensemble during the call
    rule_out,  \* what _rule_based_detection computed during the call
    ml_out,    \* what _ml_based_detection computed during the call
    is_fitted, \* AnomalyDetector.is_fitted
    in_log,    \* RootCauseAnalyzer.analyze: the log argument
    in_processed, \* RootCauseAnalyzer.analyze: the processed_log argument
    inst,      \* the AnomalyDetector instance besides is_fitted: blobs on disk,
               \* and a record of the loads, fits and saves made so far
    result     \* what the call returned (or that it raised)

vars == <<pc, logs, rule_in, ml_in, ml_env, rule_out, ml_out, is_fitted,
          in_log, in_processed, inst, result>>

-----------------------------------------------------------------------------
(* Python values *)

Str(s) == <<"str", s>>
None == <<"none", "">>
PyInt(n) == <<"int", n>>
Dict(d) == <<"dict", d>>

IsStr(v) == v[1] = "str"
IsDict(v) == v[1] = "dict"

\* dict.get(key, default)
Get(d, key, default) == IF key \in DOMAIN d THEN d[key] ELSE default

\* truthiness of a tagged value (bool(v))
Truthy(v) ==
    CASE v[1] = "str" -> v[2] # ""
      [] v[1] = "int" -> v[2] # 0
      [] v[1] = "dict" -> DOMAIN v[2] # {}
      [] OTHER -> FALSE

Min(a, b) == IF a < b THEN a ELSE b
Max(a, b) == IF a > b THEN a ELSE b

-----------------------------------------------------------------------------
(* Strings: str.lower, str.upper, the operator in *)

UpperLetters == "ABCDEFGHIJKLMNOPQRSTUVWXYZ"
LowerLetters == "abcdefghijklmnopqrstuvwxyz"

UpperSet == {SubSeq(UpperLetters, i, i) : i \in 1..26}
LowerSet == {SubSeq(LowerLetters, i, i) : i \in 1..26}

ToLower ==
    [c \in UpperSet |->
        SubSeq(LowerLetters, (CHOOSE j \in 1..26 : SubSeq(UpperLetters, j, j) = c),
                             (CHOOSE j \in 1..26 : SubSeq(UpperLetters, j, j) = c))]

ToUpper ==
    [c \in LowerSet |->
        SubSeq(UpperLetters, (CHOOSE j \in 1..26 : SubSeq(LowerLetters, j, j) = c),
                             (CHOOSE j \in 1..26 : SubSeq(LowerLetters, j, j) = c))]

LowerChar(c) == IF c \in UpperSet THEN ToLower[c] ELSE c

UpperChar(c) == IF c \in LowerSet THEN ToUpper[c] ELSE c

RECURSIVE Lower(_)
Lower(s) ==
    IF Len(s) = 0 THEN ""
    ELSE IF Len(s) = 1 THEN LowerChar(s)
    ELSE LET h == Len(s) \div 2
         IN Lower(SubSeq(s, 1, h)) \o Lower(SubSeq(s, h + 1, Len(s)))

RECURSIVE Upper(_)
Upper(s) ==
    IF Len(s) = 0 THEN ""
    ELSE IF Len(s) = 1 THEN UpperChar(s)
    ELSE LET h == Len(s) \div 2
         IN Upper(SubSeq(s, 1, h)) \o Upper(SubSeq(s, h + 1, Len(s)))

\* kw in m
Contains(kw, m) ==
    \E i \in 1..(Len(m) - Len(kw) + 1) : SubSeq(m, i, i + Len(kw) - 1) = kw

\* any(k in m for k in kws), kws a sequence of strings
ContainsAny(kws, m) == \E j \in 1..Len(kws) : Contains(kws[j], m)

\* number of entries of kws that occur in m
CountIn(kws, m) == Cardinality({j \in 1..Len(kws) : Contains(kws[j], m)})

RECURSIVE Repeat(_, _)
Repeat(s, n) ==
    IF n <= 0 THEN ""
    ELSE IF n = 1 THEN s
    ELSE Repeat(s, n \div 2) \o Repeat(s, n - n \div 2)

-----------------------------------------------------------------------------
(* LogPreprocessor *)

\* self.critical_keywords
critical_keywords ==
    << "panic", "crash", "segmentation fault", "out of memory",
       "connection refused", "timeout", "failed", "exception",
       "critical", "fatal", "abort", "denied", "null pointer",
       "stack overflow", "access denied", "permission denied" >>

error_keywords ==
    << "error", "exception", "failed", "failure", "crash", "fatal",
       "critical", "panic", "abort", "timeout", "refused", "denied",
       "null pointer", "segmentation fault", "out of memory", "stack overflow" >>

warning_keywords ==
    << "warning", "warn", "deprecated", "slow", "retry", "fallback",
       "degraded", "limited", "throttled", "temporary", "disabled" >>

ErrorLevels == {"ERROR", "FATAL", "CRITICAL"}

Digits == << "0", "1", "2", "3", "4", "5", "6", "7", "8", "9" >>

\* the character class [!@#$%^&*(),.?":{}|<>]
SpecialChars ==
    << "!", "@", "#", "$", "%", "^", "&", "*", "(", ")", ",", ".", "?",
       "\"", ":", "{", "}", "|", "<", ">" >>

\* the characters of \s that a string of the model can hold
Whitespace == {" ", "\t", "\n", "\r", "\f"}

\* the characters of [\x00-\x1f\x7f-\x9f] that a string of the model can hold
ControlChars == {"\t", "\n", "\r", "\f"}

CharAt(s, i) == SubSeq(s, i, i)

RECURSIVE JoinRange(_, _, _)
\* concatenation of piece[lo], ..., piece[hi]
JoinRange(piece, lo, hi) ==
    IF lo > hi THEN ""
    ELSE IF lo = hi THEN piece[lo]
    ELSE LET mid == (lo + hi) \div 2
         IN JoinRange(piece, lo, mid) \o JoinRange(piece, mid + 1, hi)

\* re.sub(r'\s+', ' ', message.strip()), then re.sub(r'[\x00-\x1f\x7f-\x9f]', '', .)
CleanString(s) ==
    LET n == Len(s)
        solid == {i \in 1..n : CharAt(s, i) \notin Whitespace}
    IN IF solid = {} THEN ""
       ELSE LET first == CHOOSE i \in solid : \A j \in solid : i <= j
                last == CHOOSE i \in solid : \A j \in solid : i >= j
                piece == [i \in first..last |->
                             IF CharAt(s, i) \in Whitespace
                             THEN (IF CharAt(s, i - 1) \in Whitespace THEN "" ELSE " ")
                             ELSE (IF CharAt(s, i) \in ControlChars THEN "" ELSE CharAt(s, i))]
            IN JoinRange(piece, first, last)

\* _clean_message: raises on a truthy value that is not a string
_clean_message_raises(message) == Truthy(message) /\ ~IsStr(message)

_clean_message(message) == IF ~Truthy(message) THEN "" ELSE CleanString(message[2])

\* len(message.split())
WordCount(s) ==
    Cardinality({i \in 1..Len(s) :
        /\ CharAt(s, i) \notin Whitespace
        /\ (i = 1 \/ CharAt(s, i - 1) \in Whitespace)})

_level_to_numeric(level) ==
    LET u == Upper(level)
    IN CASE u = "DEBUG" -> 1
         [] u = "INFO" -> 2
         [] u = "WARN" -> 4
         [] u = "WARNING" -> 4
         [] u = "ERROR" -> 8
         [] u = "FATAL" -> 10
         [] u = "CRITICAL" -> 10
         [] OTHER -> 0

_has_error_keywords(message) == ContainsAny(error_keywords, Lower(message))

_has_warning_keywords(message) == ContainsAny(warning_keywords, Lower(message))

_count_critical_keywords(message) == CountIn(critical_keywords, Lower(message))

\* weights in thousandths; min(score, 1.0)
_calculate_error_pattern_score(message) ==
    LET m == Lower(message)
        w(k, x) == IF Contains(k, m) THEN x ELSE 0
    IN Min(w("connection", 300) + w("timeout", 400) + w("failed", 200)
           + w("error", 100) + w("exception", 300) + w("crash", 500)
           + w("panic", 600) + w("fatal", 500) + w("critical", 400), 1000)

\* _extract_enhanced_features raises when level or message is not a string
\* (None.upper(), len(None)) or when source is unhashable.
_extract_enhanced_features_raises(log) ==
    \/ ~IsStr(Get(log, "message", Str("")))
    \/ ~IsStr(Get(log, "level", Str("")))
    \/ IsDict(Get(log, "source", Str("")))

\* The fields whose value is an integer or a boolean.  source_hash (Python's
\* per-process string hash), message_entropy (log2), stack_trace_indicator
\* and the ratio fields are read only by the outlier ensemble, whose output
\* is a free input of this model, and are left out.
_extract_enhanced_features(log) ==
    LET message == Get(log, "message", Str(""))[2]
        level == Upper(Get(log, "level", Str(""))[2])
    IN [ message_length |-> Len(message),
         word_count |-> IF message # "" THEN WordCount(message) ELSE 0,
         level_numeric |-> _level_to_numeric(level),
         has_error_keywords |-> _has_error_keywords(message),
         has_warning_keywords |-> _has_warning_keywords(message),
         has_numbers |-> ContainsAny(Digits, message),
         has_special_chars |-> ContainsAny(SpecialChars, message),
         critical_keyword_count |-> _count_critical_keywords(message),
         error_pattern_score |-> _calculate_error_pattern_score(message),
         is_error_level |-> level \in ErrorLevels ]

\* _normalize_timestamp never raises: every exception of strptime is caught
\* and the argument returned.  Of the four formats, the two without a
\* fraction of a second are modelled, with two-digit fields; a string of
\* another shape is returned as it is.
IsDigit(c) == \E j \in 1..10 : Digits[j] = c

TwoDigits(s, i) == IsDigit(CharAt(s, i)) /\ IsDigit(CharAt(s, i + 1))

MonthStrings == {"01", "02", "03", "04", "05", "06", "07", "08", "09", "10", "11", "12"}

ParsesAsDateTime(s, sep, tail) ==
    /\ Len(s) = 19 + Len(tail)
    /\ TwoDigits(s, 1) /\ TwoDigits(s, 3) /\ CharAt(s, 5) = "-"
    /\ SubSeq(s, 6, 7) \in MonthStrings /\ CharAt(s, 8) = "-"
    /\ TwoDigits(s, 9) /\ CharAt(s, 9) \in {"0", "1", "2"} /\ SubSeq(s, 9, 10) # "00"
    /\ CharAt(s, 11) = sep
    /\ TwoDigits(s, 12)
    /\ (CharAt(s, 12) \in {"0", "1"} \/ (CharAt(s, 12) = "2" /\ CharAt(s, 13) \in {"0", "1", "2", "3"}))
    /\ CharAt(s, 14) = ":"
    /\ TwoDigits(s, 15) /\ CharAt(s, 15) \in {"0", "1", "2", "3", "4", "5"}
    /\ CharAt(s, 17) = ":"
    /\ TwoDigits(s, 18) /\ CharAt(s, 18) \in {"0", "1", "2", "3", "4", "5"}
    /\ SubSeq(s, 20, Len(s)) = tail

_normalize_timestamp(timestamp) ==
    IF ~IsStr(timestamp) THEN timestamp
    ELSE LET s == timestamp[2]
         IN IF ParsesAsDateTime(s, "T", "Z") \/ ParsesAsDateTime(s, " ", "")
            THEN Str(SubSeq(s, 1, 10) \o "T" \o SubSeq(s, 12, 19))
            ELSE timestamp

\* _process_single_log raises KeyError when message or timestamp is absent,
\* and whatever _clean_message and _extract_enhanced_features raise
_process_single_log_raises(log) ==
    \/ "message" \notin DOMAIN log
    \/ _clean_message_raises(log.message)
    \/ _extract_enhanced_features_raises(log)
    \/ "timestamp" \notin DOMAIN log

\* The patterns list (regular-expression extraction of dates, times and
\* addresses, read by no other component) is not modelled.
_process_single_log(log) ==
    [k \in DOMAIN log \cup {"cleaned_message", "features", "normalized_timestamp"} |->
        CASE k = "cleaned_message" -> Str(_clean_message(log.message))
          [] k = "features" -> Dict(_extract_enhanced_features(log))
          [] k = "normalized_timestamp" -> _normalize_timestamp(log.timestamp)
          [] OTHER -> log[k]]

\* len(v) of a tagged value that has a length
PyLen(v) == IF IsStr(v) THEN Len(v[2]) ELSE Cardinality(DOMAIN v[2])

\* _create_fallback_log raises when len(message) or level.upper() does
_create_fallback_log_raises(log) ==
    \/ Get(log, "message", Str(""))[1] \notin {"str", "dict"}
    \/ ~IsStr(Get(log, "level", Str("")))

_create_fallback_log(log) ==
    [k \in DOMAIN log \cup {"cleaned_message", "features", "normalized_timestamp"} |->
        CASE k = "cleaned_message" -> Get(log, "message", Str(""))
          [] k = "features" ->
                Dict([ message_length |-> PyLen(Get(log, "message", Str(""))),
                       level_numeric |-> _level_to_numeric(Get(log, "level", Str(""))[2]),
                       has_error_keywords |-> FALSE,
                       has_warning_keywords |-> FALSE,
                       critical_keyword_count |-> 0,
                       error_pattern_score |-> 0,
                       stack_trace_indicator |-> 0,
                       is_error_level |-> FALSE,
                       message_entropy |-> 0 ])
          [] k = "normalized_timestamp" -> Get(log, "timestamp", Str(""))
          [] OTHER -> log[k]]

\* One iteration of the loop of process: [raised, value]
ProcessRecord(log) ==
    IF ~_process_single_log_raises(log)
    THEN [raised |-> FALSE, value |-> _process_single_log(log)]
    ELSE IF ~_create_fallback_log_raises(log)
    THEN [raised |-> FALSE, value |-> _create_fallback_log(log)]
    ELSE [raised |-> TRUE, value |-> log]

\* process: [raised, value]; an exception of _create_fallback_log is raised
\* inside the except clause and leaves process
process(raw_logs) ==
    LET per == [i \in 1..Len(raw_logs) |-> ProcessRecord(raw_logs[i])]
    IN IF \E i \in 1..Len(raw_logs) : per[i].raised
       THEN [raised |-> TRUE, value |-> <<>>]
       ELSE [raised |-> FALSE, value |-> [i \in 1..Len(raw_logs) |-> per[i].value]]

-----------------------------------------------------------------------------
(* AnomalyDetector: the rule scorer *)

\* critical_keywords of _rule_based_detection (rule 2)
rule_critical_keywords ==
    << "panic", "crash", "segmentation fault", "out of memory",
       "connection refused", "timeout", "failed", "exception",
       "critical", "fatal", "abort", "denied" >>

\* error_patterns of _is_frequent_error_pattern
error_patterns ==
    << "connection refused", "timeout", "out of memory",
       "segmentation fault", "null pointer", "stack overflow",
       "access denied", "permission denied", "file not found",
       "network unreachable" >>

_is_frequent_error_pattern(message) == ContainsAny(error_patterns, Lower(message))

RuleScoreErrorLevel == 800
RuleScoreCriticalBase == 500
RuleScoreCriticalCap == 900
CriticalKeywordWeight == 200
CriticalScoreThreshold == 400
RuleScoreWarn == 600
RuleScoreLong == 500
RuleScoreFrequent == 700
RuleScoreDefault == 100
LongMessageLength == 1000

\* level = original_log.get('level', '').upper()
RuleLevel_CaseSensitive(rawlevel) == rawlevel

RuleLevel(rawlevel) == Upper(rawlevel)

\* critical_score of rule 2: 0.2 for every keyword of the list present
critical_score_NoAccumulate(message) ==
    IF ContainsAny(rule_critical_keywords, message) THEN CriticalKeywordWeight ELSE 0

critical_score(message) == CriticalKeywordWeight * CountIn(rule_critical_keywords, message)

\* a rule 2 without its cap
CriticalVerdictScore_Uncapped(score) == RuleScoreCriticalBase + score

\* rule 2: min(0.9, 0.5 + critical_score)
CriticalVerdictScore(score) ==
    Min(RuleScoreCriticalCap, RuleScoreCriticalBase + score)

\* a rule 3 that takes WARNING for WARN
IsWarnLevel_OrWarning(level) == level \in {"WARN", "WARNING"}

\* rule 3: level == 'WARN'
IsWarnLevel(level) == level = "WARN"

\* a rule 4 that fires at the limit itself
IsLongMessage_AtLimit(features) ==
    Get(features, "message_length", 0) >= LongMessageLength

\* rule 4: features.get('message_length', 0) > 1000
IsLongMessage(features) ==
    Get(features, "message_length", 0) > LongMessageLength

Verdict(a, s) == [raised |-> FALSE, is_anomaly |-> a, score |-> s]
Raised == [raised |-> TRUE, is_anomaly |-> FALSE, score |-> 0]

\* One iteration of the loop of _rule_based_detection, lines 55-105.
\* log.get('level', '').upper() and log.get('message', '').lower() raise on
\* a value that is not a string; features.get raises when features is not a
\* dict, and is reached only by rule 3 (after level == 'WARN') and rule 4.
RuleRecord(log) ==
    LET features == Get(log, "features", Dict([x \in {} |-> 0]))
        rawlevel == Get(log, "level", Str(""))
        rawmessage == Get(log, "message", Str(""))
    IN IF ~IsStr(rawlevel) \/ ~IsStr(rawmessage) THEN Raised
       ELSE LET level == RuleLevel(rawlevel[2])
                message == Lower(rawmessage[2])
            IN IF level \in ErrorLevels THEN Verdict(TRUE, RuleScoreErrorLevel)
               ELSE IF critical_score(message) >= CriticalScoreThreshold
                    THEN Verdict(TRUE, CriticalVerdictScore(critical_score(message)))
               ELSE IF IsWarnLevel(level) /\ ~IsDict(features) THEN Raised
               ELSE IF IsWarnLevel(level) /\ Get(features[2], "has_error_keywords", FALSE)
                    THEN Verdict(TRUE, RuleScoreWarn)
               ELSE IF ~IsDict(features) THEN Raised
               ELSE IF IsLongMessage(features[2])
                    THEN Verdict(TRUE, RuleScoreLong)
               ELSE IF _is_frequent_error_pattern(message)
                    THEN Verdict(TRUE, RuleScoreFrequent)
               ELSE Verdict(FALSE, RuleScoreDefault)

Results(a, s) == [raised |-> FALSE, is_anomaly |-> a, scores |-> s]
RaisedResults == [raised |-> TRUE, is_anomaly |-> <<>>, scores |-> <<>>]

\* _rule_based_detection: an exception in any iteration leaves the function
_rule_based_detection(processed_logs) ==
    LET per == [i \in 1..Len(processed_logs) |-> RuleRecord(processed_logs[i])]
    IN IF \E i \in 1..Len(processed_logs) : per[i].raised THEN RaisedResults
       ELSE Results([i \in 1..Len(processed_logs) |-> per[i].is_anomaly],
                    [i \in 1..Len(processed_logs) |-> per[i].score])

-----------------------------------------------------------------------------
(* AnomalyDetector: the outlier model, the combiner, detect_anomalies *)

PromoteThreshold == 700

\* _get_default_results
_get_default_results_Empty(num_logs) == Results(<<>>, <<>>)

_get_default_results(num_logs) ==
    Results([i \in 1..num_logs |-> FALSE], [i \in 1..num_logs |-> 0])

SeqMin(s) == CHOOSE x \in {s[i] : i \in 1..Len(s)} : \A j \in 1..Len(s) : x <= s[j]
SeqMax(s) == CHOOSE x \in {s[i] : i \in 1..Len(s)} : \A j \in 1..Len(s) : x >= s[j]

\* the raw scores of score_samples returned as they are
_normalize_scores_Raw(scores) == scores

\* a normalization that maps equal raw scores to 1
_normalize_scores_EqualIsOne(scores) ==
    IF Len(scores) = 0 THEN <<>>
    ELSE IF SeqMin(scores) = SeqMax(scores) THEN [i \in 1..Len(scores) |-> 1000]
    ELSE [i \in 1..Len(scores) |->
            ((SeqMax(scores) - scores[i]) * 1000) \div (SeqMax(scores) - SeqMin(scores))]

\* a normalization that does not invert: (raw - min) / (max - min)
_normalize_scores_NotInverted(scores) ==
    IF Len(scores) = 0 THEN <<>>
    ELSE IF SeqMin(scores) = SeqMax(scores) THEN [i \in 1..Len(scores) |-> 0]
    ELSE [i \in 1..Len(scores) |->
            ((scores[i] - SeqMin(scores)) * 1000) \div (SeqMax(scores) - SeqMin(scores))]

\* _normalize_scores: (max - raw) / (max - min) in thousandths, clipped to [0, 1]
_normalize_scores(scores) ==
    IF Len(scores) = 0 THEN <<>>
    ELSE LET min_score == SeqMin(scores)
             max_score == SeqMax(scores)
         IN IF min_score = max_score THEN [i \in 1..Len(scores) |-> 0]
            ELSE [i \in 1..Len(scores) |->
                    Max(0, Min(1000,
                        ((max_score - scores[i]) * 1000) \div (max_score - min_score)))]

\* _extract_enhanced_ml_features raises when the features of a record are
\* not a dict (log_features.get)
_extract_enhanced_ml_features_raises(processed_logs) ==
    \E i \in 1..Len(processed_logs) :
        ~IsDict(Get(processed_logs[i], "features", Dict([x \in {} |-> 0])))

\* _fit_model: the value of is_fitted it leaves.  Called only when the model
\* is unfitted; an exception of the scaler or of the ensemble is swallowed
\* and leaves is_fitted False; _save_model swallows its own exceptions.
_fit_model(fitted, env) == IF env.fit_ok THEN TRUE ELSE fitted

\* _ml_based_detection without its except clause
_ml_based_detection_Uncaught(processed_logs, fitted, env) ==
    LET n == Len(processed_logs)
    IN IF _extract_enhanced_ml_features_raises(processed_logs)
       THEN [results |-> RaisedResults, is_fitted |-> fitted]
       ELSE LET fitted2 == IF ~fitted THEN _fit_model(fitted, env) ELSE fitted
            IN IF ~fitted2 \/ ~env.predict_ok
               THEN [results |-> RaisedResults, is_fitted |-> fitted2]
               ELSE [results |->
                        Results([i \in 1..n |-> env.predictions[i] = -1],
                                _normalize_scores(env.scores)),
                     is_fitted |-> fitted2]

\* _ml_based_detection: [results, is_fitted].  env is what the scaler and the
\* ensemble do during this call: whether fit succeeds, whether predict and
\* score_samples succeed, and the labels and raw scores they return.
\* predict on an ensemble that was never fitted raises NotFittedError.
_ml_based_detection(processed_logs, fitted, env) ==
    LET n == Len(processed_logs)
    IN IF _extract_enhanced_ml_features_raises(processed_logs)
       THEN [results |-> _get_default_results(n), is_fitted |-> fitted]
       ELSE LET fitted2 == IF ~fitted THEN _fit_model(fitted, env) ELSE fitted
            IN IF ~fitted2 \/ ~env.predict_ok
               THEN [results |-> _get_default_results(n), is_fitted |-> fitted2]
               ELSE [results |->
                        Results([i \in 1..n |-> env.predictions[i] = -1],
                                _normalize_scores(env.scores)),
                     is_fitted |-> fitted2]

\* the combiner promoting an ML anomaly at the threshold itself
CombineAt_PromoteAtThreshold(rule_results, ml_results, i) ==
    LET rule_anomaly == rule_results.is_anomaly[i]
        rule_score == rule_results.scores[i]
        ml_anomaly == IF i < Len(ml_results.is_anomaly) + 1
                      THEN ml_results.is_anomaly[i] ELSE FALSE
        ml_score == IF i < Len(ml_results.scores) + 1
                    THEN ml_results.scores[i] ELSE 0
    IN IF rule_anomaly THEN Verdict(TRUE, Max(rule_score, ml_score))
       ELSE IF ml_anomaly /\ ml_score >= PromoteThreshold THEN Verdict(TRUE, ml_score)
       ELSE Verdict(FALSE, Min(rule_score, ml_score))

\* a combiner that keeps the larger score for a normal record
CombineAt_MaxForNormal(rule_results, ml_results, i) ==
    LET rule_anomaly == rule_results.is_anomaly[i]
        rule_score == rule_results.scores[i]
        ml_anomaly == IF i < Len(ml_results.is_anomaly) + 1
                      THEN ml_results.is_anomaly[i] ELSE FALSE
        ml_score == IF i < Len(ml_results.scores) + 1
                    THEN ml_results.scores[i] ELSE 0
    IN IF rule_anomaly THEN Verdict(TRUE, Max(rule_score, ml_score))
       ELSE IF ml_anomaly /\ ml_score > PromoteThreshold THEN Verdict(TRUE, ml_score)
       ELSE Verdict(FALSE, Max(rule_score, ml_score))

\* a combiner that reads the rule score of the first record at every index
CombineAt_FirstScore(rule_results, ml_results, i) ==
    LET rule_anomaly == rule_results.is_anomaly[i]
        rule_score == rule_results.scores[1]
        ml_anomaly == IF i < Len(ml_results.is_anomaly) + 1
                      THEN ml_results.is_anomaly[i] ELSE FALSE
        ml_score == IF i < Len(ml_results.scores) + 1
                    THEN ml_results.scores[i] ELSE 0
    IN IF rule_anomaly THEN Verdict(TRUE, Max(rule_score, ml_score))
       ELSE IF ml_anomaly /\ ml_score > PromoteThreshold THEN Verdict(TRUE, ml_score)
       ELSE Verdict(FALSE, Min(rule_score, ml_score))

\* One iteration of the loop of _combine_results, lines 148-163
CombineAt(rule_results, ml_results, i) ==
    LET rule_anomaly == rule_results.is_anomaly[i]
        rule_score == rule_results.scores[i]
        ml_anomaly == IF i < Len(ml_results.is_anomaly) + 1
                      THEN ml_results.is_anomaly[i] ELSE FALSE
        ml_score == IF i < Len(ml_results.scores) + 1
                    THEN ml_results.scores[i] ELSE 0
    IN IF rule_anomaly THEN Verdict(TRUE, Max(rule_score, ml_score))
       ELSE IF ml_anomaly /\ ml_score > PromoteThreshold THEN Verdict(TRUE, ml_score)
       ELSE Verdict(FALSE, Min(rule_score, ml_score))

\* _combine_results; rule_results['scores'][i] raises IndexError when the
\* scores list is shorter than the is_anomaly list
_combine_results(rule_results, ml_results) ==
    LET n == Len(rule_results.is_anomaly)
    IN IF Len(rule_results.scores) < n THEN RaisedResults
       ELSE Results([i \in 1..n |-> CombineAt(rule_results, ml_results, i).is_anomaly],
                    [i \in 1..n |-> CombineAt(rule_results, ml_results, i).score])

\* detect_anomalies: [results, rule, ml, is_fitted]
detect_anomalies(processed_logs, fitted, env) ==
    LET n == Len(processed_logs)
        none == Results(<<>>, <<>>)
    IN IF n = 0
       THEN [results |-> Results(<<>>, <<>>), rule |-> none, ml |-> none,
             is_fitted |-> fitted]
       ELSE LET rule == _rule_based_detection(processed_logs)
            IN IF rule.raised
               THEN [results |-> _get_default_results(n), rule |-> rule, ml |-> none,
                     is_fitted |-> fitted]
               ELSE LET ml == _ml_based_detection(processed_logs, fitted, env)
                        combined == IF ml.results.raised THEN RaisedResults
                                    ELSE _combine_results(rule, ml.results)
                    IN [results |-> IF combined.raised THEN _get_default_results(n)
                                    ELSE combined,
                        rule |-> rule, ml |-> ml.results, is_fitted |-> ml.is_fitted]

-----------------------------------------------------------------------------
(* AnomalyDetector: construction, and the fit and save made by a call *)

Blobs == {"model", "scaler"}

\* a load that takes either blob for a persisted model
_load_model_EitherBlob(blobs, load_ok) == blobs # {} /\ load_ok

\* _load_model: is_fitted after __init__.  blobs are the files that exist in
\* the model directory, load_ok is whether joblib.load reads them without
\* an exception (the except clause sets is_fitted False)
_load_model(blobs, load_ok) == Blobs \subseteq blobs /\ load_ok

\* a guard that sends every call into _fit_model
NeedsFit_Always(fitted) == TRUE

\* if not self.is_fitted
NeedsFit(fitted) == ~fitted

\* whether a call of detect_anomalies reaches _fit_model (line 121): the
\* batch is not empty, neither the rule scorer nor the feature matrix
\* raised, and the guard lets it in
ReachesFit(processed_logs, fitted) ==
    /\ processed_logs # <<>>
    /\ ~_rule_based_detection(processed_logs).raised
    /\ ~_extract_enhanced_ml_features_raises(processed_logs)
    /\ NeedsFit(fitted)

\* whether a call of detect_anomalies reaches model.predict (line 124): the
\* batch is not empty and neither the rule scorer nor the feature matrix
\* raised; _fit_model swallows its exceptions
ReachesPredict(processed_logs) ==
    /\ processed_logs # <<>>
    /\ ~_rule_based_detection(processed_logs).raised
    /\ ~_extract_enhanced_ml_features_raises(processed_logs)

\* the matrix given to model.fit: scaled_features, what scaler.fit_transform
\* returned (lines 236-239)
FitInput == "scaled"

\* the matrix given to model.predict and model.score_samples: features, what
\* _extract_enhanced_ml_features returned (lines 113, 124-125)
PredictInput == "raw"

\* _fit_model runs scaler.fit_transform, then model.fit, then sets
\* is_fitted, then calls _save_model; the first exception ends it.  e is
\* what happens: "scaler_fails", "model_fails", "save_fails" or "ok"
ScalerFitted(e) == e # "scaler_fails"
ModelFitted(e) == e \notin {"scaler_fails", "model_fails"}

\* _save_model: the blobs in the model directory after it; an exception of
\* joblib.dump is swallowed
_save_model(blobs, e) == IF e = "ok" THEN blobs \cup Blobs ELSE blobs

\* is_fitted after a call
FittedAfter(processed_logs, fitted, e) ==
    IF ReachesFit(processed_logs, fitted) /\ ModelFitted(e) THEN TRUE ELSE fitted

\* what the ensemble does during a call, as _ml_based_detection sees it
EnvOf(e, n) ==
    [fit_ok |-> ModelFitted(e), predict_ok |-> TRUE,
     predictions |-> [i \in 1..n |-> 1], scores |-> [i \in 1..n |-> 0]]

-----------------------------------------------------------------------------
(* RootCauseAnalyzer *)

\* self.error_patterns: a pattern is the sequence of the literals that its
\* '.*' separate, and whether it ends with '.*\w+'
Pat(parts, word) == [parts |-> parts, word |-> word]

database_category ==
    [ name |-> "database",
      patterns |->
        << Pat(<<"database">>, TRUE),
           Pat(<<"connection", "timeout">>, FALSE),
           Pat(<<"database", "not", "available">>, FALSE),
           Pat(<<"sql", "error">>, FALSE),
           Pat(<<"deadlock">>, FALSE),
           Pat(<<"connection", "refused">>, FALSE),
           Pat(<<"too many connections">>, FALSE),
           Pat(<<"db", "connection", "failed">>, FALSE),
           Pat(<<"mysql", "error">>, FALSE),
           Pat(<<"postgresql", "error">>, FALSE),
           Pat(<<"oracle", "error">>, FALSE),
           Pat(<<"sqlite", "error">>, FALSE),
           Pat(<<"table", "not", "found">>, FALSE),
           Pat(<<"duplicate", "key">>, FALSE),
           Pat(<<"constraint", "violation">>, FALSE) >>,
      root_causes |->
        << "Database connection timeout",
           "Database server unavailable",
           "SQL query error",
           "Database deadlock",
           "Connection pool exhausted",
           "Database schema issue",
           "Data integrity violation" >>,
      recommendations |->
        << "Check database connectivity and network",
           "Increase connection timeout settings",
           "Review and optimize SQL queries",
           "Monitor database performance metrics",
           "Scale database connection pool",
           "Verify database schema and migrations",
           "Review data validation logic" >> ]

network_category ==
    [ name |-> "network",
      patterns |->
        << Pat(<<"network">>, TRUE),
           Pat(<<"connection", "reset">>, FALSE),
           Pat(<<"host", "unreachable">>, FALSE),
           Pat(<<"timeout", "exceeded">>, FALSE),
           Pat(<<"dns", "resolution", "failed">>, FALSE),
           Pat(<<"socket", "timeout">>, FALSE),
           Pat(<<"connection", "aborted">>, FALSE),
           Pat(<<"network", "unreachable">>, FALSE),
           Pat(<<"port", "unreachable">>, FALSE),
           Pat(<<"ssl", "handshake", "failed">>, FALSE),
           Pat(<<"certificate", "error">>, FALSE),
           Pat(<<"tls", "error">>, FALSE) >>,
      root_causes |->
        << "Network connectivity issue",
           "Connection reset by peer",
           "Host unreachable",
           "Network timeout",
           "DNS resolution failure",
           "SSL/TLS certificate issue",
           "Firewall blocking connection" >>,
      recommendations |->
        << "Check network connectivity",
           "Verify firewall and security group settings",
           "Test DNS resolution",
           "Monitor network latency",
           "Implement retry mechanisms with backoff",
           "Verify SSL/TLS certificates",
           "Check proxy and load balancer configuration" >> ]

memory_category ==
    [ name |-> "memory",
      patterns |->
        << Pat(<<"out", "of", "memory">>, FALSE),
           Pat(<<"memory", "leak">>, FALSE),
           Pat(<<"heap", "space">>, FALSE),
           Pat(<<"stack", "overflow">>, FALSE),
           Pat(<<"gc", "overhead">>, FALSE) >>,
      root_causes |->
        << "Memory exhaustion",
           "Memory leak detected",
           "Heap space insufficient",
           "Stack overflow",
           "Garbage collection overhead" >>,
      recommendations |->
        << "Increase memory allocation",
           "Profile application for memory leaks",
           "Optimize data structures and algorithms",
           "Review recursive function calls",
           "Tune garbage collection parameters" >> ]

authentication_category ==
    [ name |-> "authentication",
      patterns |->
        << Pat(<<"authentication", "failed">>, FALSE),
           Pat(<<"unauthorized">>, FALSE),
           Pat(<<"access", "denied">>, FALSE),
           Pat(<<"invalid", "credentials">>, FALSE),
           Pat(<<"token", "expired">>, FALSE) >>,
      root_causes |->
        << "Authentication failure",
           "Unauthorized access attempt",
           "Invalid credentials provided",
           "Expired authentication token",
           "Insufficient permissions" >>,
      recommendations |->
        << "Verify user credentials",
           "Check authentication service status",
           "Review access control policies",
           "Implement token refresh mechanism",
           "Monitor for suspicious access patterns" >> ]

performance_category ==
    [ name |-> "performance",
      patterns |->
        << Pat(<<"slow", "query">>, FALSE),
           Pat(<<"response", "time", "exceeded">>, FALSE),
           Pat(<<"performance", "degraded">>, FALSE),
           Pat(<<"high", "cpu">>, FALSE),
           Pat(<<"thread", "pool", "exhausted">>, FALSE),
           Pat(<<"request", "timeout">>, FALSE),
           Pat(<<"processing", "slow">>, FALSE),
           Pat(<<"latency", "high">>, FALSE),
           Pat(<<"throughput", "low">>, FALSE),
           Pat(<<"queue", "full">>, FALSE),
           Pat(<<"backlog", "growing">>, FALSE) >>,
      root_causes |->
        << "Slow database query",
           "Response time exceeded threshold",
           "Performance degradation",
           "High CPU utilization",
           "Thread pool exhaustion",
           "Resource contention",
           "System overload" >>,
      recommendations |->
        << "Optimize database queries and indexes",
           "Scale application resources",
           "Implement caching strategies",
           "Monitor system resource usage",
           "Tune thread pool configuration",
           "Review algorithm efficiency",
           "Implement load balancing" >> ]

application_category ==
    [ name |-> "application",
      patterns |->
        << Pat(<<"null", "pointer", "exception">>, FALSE),
           Pat(<<"array", "index", "out", "of", "bounds">>, FALSE),
           Pat(<<"class", "not", "found">>, FALSE),
           Pat(<<"method", "not", "found">>, FALSE),
           Pat(<<"illegal", "argument">>, FALSE),
           Pat(<<"runtime", "exception">>, FALSE),
           Pat(<<"assertion", "failed">>, FALSE),
           Pat(<<"validation", "failed">>, FALSE) >>,
      root_causes |->
        << "Null pointer dereference",
           "Array bounds violation",
           "Missing class or dependency",
           "Method signature mismatch",
           "Invalid input parameters",
           "Runtime assertion failure",
           "Data validation error" >>,
      recommendations |->
        << "Add null checks and defensive programming",
           "Validate array bounds before access",
           "Verify classpath and dependencies",
           "Check method signatures and versions",
           "Implement input validation",
           "Review business logic assertions",
           "Strengthen data validation rules" >> ]

\* the categories in declaration order
error_pattern_categories ==
    << database_category, network_category, memory_category, authentication_category, performance_category, application_category >>

\* positions in from..to at which the literal lit starts and fits
Occ(lit, m, from, to) ==
    {p \in from..(to - Len(lit) + 1) : SubSeq(m, p, p + Len(lit) - 1) = lit}

SetMin(S) == CHOOSE x \in S : \A y \in S : x <= y
SetMax(S) == CHOOSE x \in S : \A y \in S : x >= y

\* '.' matches no line break: the last position of the line that holds p
LineEnd(m, p) ==
    LET breaks == {j \in p..Len(m) : CharAt(m, j) = "\n"}
    IN IF breaks = {} THEN Len(m) ELSE SetMin(breaks) - 1

\* [a-zA-Z0-9_]
WordChar(c) == c \in UpperSet \/ c \in LowerSet \/ IsDigit(c) \/ c = "_"

RECURSIVE ChainEnd(_, _, _, _, _)
\* the literals parts[k..] placed in order, each as early as possible, in
\* from..to: the position after the last one, or 0 when they do not fit
ChainEnd(parts, k, m, from, to) ==
    IF k > Len(parts) THEN from
    ELSE LET occ == Occ(parts[k], m, from, to)
         IN IF occ = {} THEN 0
            ELSE ChainEnd(parts, k + 1, m, SetMin(occ) + Len(parts[k]), to)

\* whether what follows the literals can match after position after - 1
TailMatches(pat, m, after, to) ==
    /\ after # 0
    /\ pat.word => \E j \in after..to : WordChar(CharAt(m, j))

\* whether the pattern matches with its first literal at position p, in a
\* line that ends at position to
MatchesInLine(pat, m, p, to) ==
    /\ SubSeq(m, p, p + Len(pat.parts[1]) - 1) = pat.parts[1]
    /\ TailMatches(pat, m, ChainEnd(pat.parts, 2, m, p + Len(pat.parts[1]), to), to)

MatchesAt(pat, m, p) == MatchesInLine(pat, m, p, LineEnd(m, p))

MinOrZero(S) == IF S = {} THEN 0 ELSE SetMin(S)

\* re.search(pattern, message): the start of the leftmost match, 0 if none
SearchStart(pat, m) ==
    MinOrZero({p \in 1..(Len(m) - Len(pat.parts[1]) + 1) : MatchesAt(pat, m, p)})

\* the last position of a match that starts at p in a line that ends at to:
\* every '.*' and the final '\w+' are greedy, so the match runs to the last
\* place of the line where its last element fits
MatchEnd(pat, m, p, to) ==
    IF pat.word
    THEN SetMax({j \in ChainEnd(pat.parts, 2, m, p + Len(pat.parts[1]), to)..to :
                    WordChar(CharAt(m, j))})
    ELSE IF Len(pat.parts) = 1 THEN p + Len(pat.parts[1]) - 1
    ELSE SetMax(Occ(pat.parts[Len(pat.parts)], m,
                    ChainEnd(SubSeq(pat.parts, 1, Len(pat.parts) - 1), 2, m,
                             p + Len(pat.parts[1]), to),
                    to))
         + Len(pat.parts[Len(pat.parts)]) - 1

\* len(match.group()) of a match that starts at p
MatchLength(pat, m, p) == MatchEnd(pat, m, p, LineEnd(m, p)) - p + 1

RECURSIVE SumLen(_)
SumLen(parts) == IF parts = <<>> THEN 0 ELSE Len(Head(parts)) + SumLen(Tail(parts))

\* len(pattern)
PatternLength(pat) ==
    SumLen(pat.parts) + 2 * (Len(pat.parts) - 1) + (IF pat.word THEN 5 ELSE 0)

\* The score of a pattern on a message, as the numerator of a fraction whose
\* denominator is 20 * len(message):
\* min(1.0, match_length / len(message) + len(pattern) / 20.0)
ScoreDen(m) == 20 * Len(m)

ScoreAt(pat, m, p) ==
    IF p = 0 THEN 0
    ELSE Min(ScoreDen(m), 20 * MatchLength(pat, m, p) + PatternLength(pat) * Len(m))

PatternScore(pat, m) == ScoreAt(pat, m, SearchStart(pat, m))

\* max_score of a category
CategoryScore(cat, m) ==
    SetMax({0} \cup {PatternScore(cat.patterns[j], m) : j \in 1..Len(cat.patterns)})

RECURSIVE InsertDesc_Unstable(_, _)
\* an insertion that puts a pair before the pairs of equal score
InsertDesc_Unstable(sorted, x) ==
    IF sorted = <<>> THEN <<x>>
    ELSE IF Head(sorted)[2] > x[2]
    THEN <<Head(sorted)>> \o InsertDesc_Unstable(Tail(sorted), x)
    ELSE <<x>> \o sorted

RECURSIVE InsertDesc(_, _)
\* insertion of a pair <<category index, score>> after the pairs whose score
\* is not smaller: a stable sort by score, descending
InsertDesc(sorted, x) ==
    IF sorted = <<>> THEN <<x>>
    ELSE IF Head(sorted)[2] >= x[2] THEN <<Head(sorted)>> \o InsertDesc(Tail(sorted), x)
    ELSE <<x>> \o sorted

RECURSIVE SortDesc(_)
SortDesc(pairs) ==
    IF pairs = <<>> THEN <<>>
    ELSE InsertDesc(SortDesc(SubSeq(pairs, 1, Len(pairs) - 1)), pairs[Len(pairs)])

\* if max_score > 0: matched_categories.append((category, max_score))
MatchedPair(k, sc) == IF sc > 0 THEN << <<k, sc>> >> ELSE <<>>

RECURSIVE SelectMatched(_, _, _)
SelectMatched(cats, m, k) ==
    IF k > Len(cats) THEN <<>>
    ELSE MatchedPair(k, CategoryScore(cats[k], m)) \o SelectMatched(cats, m, k + 1)

\* _match_error_patterns_with_score: pairs <<category index, score numerator>>
_match_error_patterns_with_score(message) ==
    SortDesc(SelectMatched(error_pattern_categories, message, 1))

\* thresholds that are not strict
NumItems_NotStrict(score, m) ==
    IF 10 * score >= 7 * ScoreDen(m) THEN 3
    ELSE IF 10 * score >= 5 * ScoreDen(m) THEN 2
    ELSE 1

\* num_items = 3 if score > 0.7 else 2 if score > 0.5 else 1
NumItems(score, m) ==
    IF 10 * score > 7 * ScoreDen(m) THEN 3
    ELSE IF 10 * score > 5 * ScoreDen(m) THEN 2
    ELSE 1

Take(s, n) == SubSeq(s, 1, Min(n, Len(s)))

RECURSIVE CategoryItems(_, _, _, _)
\* the entries the matched categories contribute
CategoryItems(cats, matched, m, field) ==
    IF matched = <<>> THEN <<>>
    ELSE Take(cats[Head(matched)[1]][field], NumItems(Head(matched)[2], m))
         \o CategoryItems(cats, Tail(matched), m, field)

_get_generic_error_causes(message) ==
    LET found ==
          (IF Contains("failed", message) THEN <<"Operation failed to complete">> ELSE <<>>)
          \o (IF Contains("exception", message) THEN <<"Unhandled exception occurred">> ELSE <<>>)
          \o (IF Contains("error", message) THEN <<"System error detected">> ELSE <<>>)
    IN IF found = <<>> THEN <<"Unexpected system behavior">> ELSE found

\* a fallback without recommendations
_get_generic_error_recommendations_None == <<>>

_get_generic_error_recommendations ==
    << "Check system logs for additional context",
       "Verify system resources and dependencies",
       "Review recent changes and deployments" >>

error_keyword_map ==
    << <<"timeout", "Request timeout occurred">>,
       <<"refused", "Connection refused by target">>,
       <<"denied", "Access or permission denied">>,
       <<"crash", "Application crash detected">>,
       <<"panic", "System panic condition">>,
       <<"abort", "Operation aborted unexpectedly">> >>

RECURSIVE KeywordCauses(_, _)
KeywordCauses(message, k) ==
    IF k > Len(error_keyword_map) THEN <<>>
    ELSE (IF Contains(error_keyword_map[k][1], message)
          THEN <<error_keyword_map[k][2]>> ELSE <<>>)
         \o KeywordCauses(message, k + 1)

_analyze_error_keywords(message) == KeywordCauses(message, 1)

source_patterns ==
    << [ keywords |-> <<"auth", "login", "user", "session">>,
         causes |-> <<"Authentication service issue", "User session problem">>,
         recommendations |-> <<"Check authentication service health",
                               "Verify user session management">> ],
       [ keywords |-> <<"db", "sql", "postgres", "mysql", "mongo">>,
         causes |-> <<"Database service issue", "Data access problem">>,
         recommendations |-> <<"Monitor database performance",
                               "Check database connections">> ],
       [ keywords |-> <<"payment", "billing", "transaction", "stripe">>,
         causes |-> <<"Payment processing issue", "Transaction failure">>,
         recommendations |-> <<"Check payment gateway status",
                               "Verify transaction logs">> ],
       [ keywords |-> <<"api", "gateway", "proxy", "endpoint">>,
         causes |-> <<"API service issue", "Gateway problem">>,
         recommendations |-> <<"Check API gateway health",
                               "Verify endpoint availability">> ] >>

NoAnalysis == [causes |-> <<>>, recommendations |-> <<>>]

\* the last group, in declared order, that has a keyword
FirstGroup_Last(groups, hits) ==
    IF hits = {} THEN NoAnalysis
    ELSE [causes |-> groups[SetMax(hits)].causes,
          recommendations |-> groups[SetMax(hits)].recommendations]

\* _analyze_by_source: the first group, in declared order, one of whose
\* keywords occurs in the source or in the message; {} when there is none
FirstGroup(groups, hits) ==
    IF hits = {} THEN NoAnalysis
    ELSE [causes |-> groups[SetMin(hits)].causes,
          recommendations |-> groups[SetMin(hits)].recommendations]

SourceHits(groups, source_lower, message_lower) ==
    {g \in 1..Len(groups) :
        \/ ContainsAny(groups[g].keywords, source_lower)
        \/ ContainsAny(groups[g].keywords, message_lower)}

_analyze_by_source(source, message) ==
    FirstGroup(source_patterns, SourceHits(source_patterns, Lower(source), Lower(message)))

HttpCodes == <<"404", "500", "503", "502", "401", "403">>

\* \b at the position before p and at the position after q, where the
\* characters at p and at q are word characters
BoundaryBefore(m, p) == p = 1 \/ ~WordChar(CharAt(m, p - 1))
BoundaryAfter(m, q) == q = Len(m) \/ ~WordChar(CharAt(m, q + 1))

\* re.search(r'\b(404|500|503|502|401|403)\b', message)
HasHttpStatus(m) ==
    \E c \in 1..Len(HttpCodes) : \E p \in Occ(HttpCodes[c], m, 1, Len(m)) :
        BoundaryBefore(m, p) /\ BoundaryAfter(m, p + 2)

AllDigits(m, p, q) == \A j \in p..q : IsDigit(CharAt(m, j))

\* re.search(r'\b\d{1,3}\.\d{1,3}\.\d{1,3}\.\d{1,3}\b', message)
HasIpAddress(m) ==
    \E p \in 1..Len(m) : \E a, b, c, d \in 1..3 :
        LET p2 == p + a + 1
            p3 == p2 + b + 1
            p4 == p3 + c + 1
            q == p4 + d - 1
        IN /\ q <= Len(m)
           /\ BoundaryBefore(m, p)
           /\ AllDigits(m, p, p + a - 1) /\ CharAt(m, p + a) = "."
           /\ AllDigits(m, p2, p2 + b - 1) /\ CharAt(m, p2 + b) = "."
           /\ AllDigits(m, p3, p3 + c - 1) /\ CharAt(m, p3 + c) = "."
           /\ AllDigits(m, p4, q)
           /\ BoundaryAfter(m, q)

\* _analyze_context raises when the features are not a dict or the message
\* is not a string (log.get('message', '').lower())
_analyze_context_raises(log, processed_log) ==
    \/ ~IsDict(Get(processed_log, "features", Dict([x \in {} |-> 0])))
    \/ ~IsStr(Get(log, "message", Str("")))

\* the entries of context_analysis[field], given the conditions found
ContextItems(message_length, special, http, ip, long, short, c_special, c_http, c_ip) ==
    (IF message_length > 1000 THEN <<long>>
     ELSE IF message_length < 10 THEN <<short>> ELSE <<>>)
    \o (IF special THEN <<c_special>> ELSE <<>>)
    \o (IF http THEN <<c_http>> ELSE <<>>)
    \o (IF ip /\ ~http THEN <<c_ip>> ELSE <<>>)

ContextOf(message_length, special, http, ip) ==
    [causes |->
        ContextItems(message_length, special, http, ip,
                     "Verbose error message indicates complex issue",
                     "Minimal error information available",
                     "Structured data parsing issue",
                     "HTTP status code error",
                     "Network address related issue"),
     recommendations |->
        ContextItems(message_length, special, http, ip,
                     "Review detailed error context",
                     "Enable more detailed logging",
                     "Verify data format and parsing logic",
                     "Check HTTP service and routing",
                     "Verify network configuration")]

ContextFrom(features, message) ==
    ContextOf(Get(features, "message_length", 0),
              Get(features, "has_special_chars", FALSE)
                  /\ ContainsAny(<<"[", "]", "{", "}">>, message),
              Get(features, "has_numbers", FALSE) /\ HasHttpStatus(message),
              Get(features, "has_numbers", FALSE) /\ HasIpAddress(message))

_analyze_context(log, processed_log) ==
    ContextFrom(Get(processed_log, "features", Dict([x \in {} |-> 0]))[2],
                Lower(Get(log, "message", Str(""))[2]))

\* a dict key that is set again keeps its place
AppendNew(rest, x) ==
    IF \E j \in 1..Len(rest) : rest[j] = x THEN rest ELSE Append(rest, x)

RECURSIVE Dedupe(_)
\* list(dict.fromkeys(items)): the first occurrence of every string, in order
Dedupe(items) ==
    IF items = <<>> THEN <<>>
    ELSE AppendNew(Dedupe(SubSeq(items, 1, Len(items) - 1)), items[Len(items)])

MaxReported == 4

\* a slice one entry longer
Limit_Five(items) == Take(items, MaxReported + 1)

\* root_causes[:4]
Limit(items) == Take(items, MaxReported)

Report(c, r) == [root_causes |-> c, recommendations |-> r]

\* a gate that lets every record through
should_analyze_Always(level, features) == TRUE

\* level in ['ERROR', 'FATAL', 'CRITICAL'] or features.get('has_error_keywords', False)

should_analyze(level, features) ==
    level \in ErrorLevels \/ Get(features[2], "has_error_keywords", FALSE)

\* a fallback that does not look at the level
GenericApplies_AnyLevel(level, root_causes) == root_causes = <<>>

\* if level in ['ERROR', 'FATAL', 'CRITICAL']: if not root_causes:
GenericApplies(level, root_causes) ==
    level \in ErrorLevels /\ root_causes = <<>>

Discovered(raised, worthy, c, r) ==
    [raised |-> raised, worthy |-> worthy, root_causes |-> c, recommendations |-> r]

\* lines 227-248: the generic causes when the level is an error level and
\* no category matched, the keyword causes, the source and context analyses
Extend(c1, r1, level, features, message, by_source, context) ==
    Discovered(FALSE, TRUE,
        c1
        \o (IF GenericApplies(level, c1)
            THEN _get_generic_error_causes(message) ELSE <<>>)
        \o (IF Get(features, "has_error_keywords", FALSE)
            THEN _analyze_error_keywords(message) ELSE <<>>)
        \o by_source.causes \o context.causes,
        r1
        \o (IF GenericApplies(level, c1)
            THEN _get_generic_error_recommendations ELSE <<>>)
        \o by_source.recommendations \o context.recommendations)

\* lines 220-225
Categories(cats, matched, level, features, message, by_source, context) ==
    Extend(CategoryItems(cats, matched, message, "root_causes"),
           CategoryItems(cats, matched, message, "recommendations"),
           level, features, message, by_source, context)

\* lines 204-248, for a message and a level that are strings.
\* features.get raises on features that are not a dict (at line 207 unless
\* the level is an error level, else at line 234), source.lower() on a
\* source that is not a string.
Classify(log, processed_log, message, level, source, features) ==
    IF level \notin ErrorLevels /\ ~IsDict(features)
    THEN Discovered(TRUE, FALSE, <<>>, <<>>)
    ELSE IF ~should_analyze(level, features)
    THEN Discovered(FALSE, FALSE, <<>>, <<>>)
    ELSE IF \/ ~IsDict(features)
            \/ ~IsStr(source)
            \/ _analyze_context_raises(log, processed_log)
    THEN Discovered(TRUE, FALSE, <<>>, <<>>)
    ELSE Categories(error_pattern_categories, _match_error_patterns_with_score(message),
                    level, features[2], message,
                    _analyze_by_source(source[2], message),
                    _analyze_context(log, processed_log))

\* lines 195-197: message.lower() raises on a truthy message that is not a
\* string, .upper() on a level that is not a string
Normalize(log, processed_log, rawmessage, rawlevel) ==
    IF (Truthy(rawmessage) /\ ~IsStr(rawmessage)) \/ ~IsStr(rawlevel)
    THEN Discovered(TRUE, FALSE, <<>>, <<>>)
    ELSE Classify(log, processed_log,
                  IF Truthy(rawmessage) THEN Lower(rawmessage[2]) ELSE "",
                  Upper(rawlevel[2]),
                  Get(log, "source", Str("")),
                  Get(processed_log, "features", Dict([x \in {} |-> 0])))

\* The steps of analyze between the try and the except: whether one raised,
\* whether the record was analysis-worthy, and the root causes and the
\* recommendations found, before duplicates are removed
Discover(log, processed_log) ==
    Normalize(log, processed_log, Get(log, "message", Str("")), Get(log, "level", Str("")))

\* an except clause that reports nothing
ExceptionReport_Empty == Report(<<>>, <<>>)

\* the return of the except clause
ExceptionReport ==
    Report(<<"Unknown error occurred">>, <<"Review log details and system status">>)

\* lines 250-268: duplicates removed, four entries kept; the except clause
Finish(d) ==
    IF d.raised THEN ExceptionReport
    ELSE Report(Limit(Dedupe(d.root_causes)), Limit(Dedupe(d.recommendations)))

\* analyze
analyze(log, processed_log) == Finish(Discover(log, processed_log))

-----------------------------------------------------------------------------
(* Inputs *)

MaxBatch == 2        \* records in a batch given to detect_anomalies
MaxCombine == 2      \* entries of the arrays given to _combine_results
MaxRaw == 2          \* raw logs in a batch given to LogPreprocessor.process

MsgScenario1 == "Database connection failed: Connection timeout after 30 seconds"
MsgLong == Repeat("x", 1500)
MsgLongError == "disk error " \o Repeat("x", 1489)
MsgLongCritical == "panic crash " \o Repeat("x", 1489)
MsgThousand == Repeat("x", 1000)
MsgThousandOne == Repeat("x", 1001)

LevelPool ==
    {"ERROR", "error", "Fatal", "CRITICAL", "WARN", "warn", "WARNING", "INFO", "DEBUG", ""}

MessagePool ==
    {"", "User login ok", "panic and crash", "PANIC: worker Crash", "Request timeout",
     "access denied", "disk error", "file not found", "job failed with exception, abort",
     "Null pointer after stack overflow",
     MsgScenario1, MsgLong, MsgLongError, MsgLongCritical, MsgThousand, MsgThousandOne}

\* a raw log as the service shell builds it
RawLog(level, message) ==
    [id |-> Str("1"), timestamp |-> Str("2024-01-01T10:00:00Z"), level |-> Str(level),
     message |-> Str(message), source |-> Str("api-gateway")]

\* the processed log LogPreprocessor makes of a raw log
ProcessedOf(raw) == ProcessRecord(raw).value

\* a record with field k removed, and with field k set to v
Without(r, k) == [x \in DOMAIN r \ {k} |-> r[x]]
With(r, k, v) == [x \in DOMAIN r \cup {k} |-> IF x = k THEN v ELSE r[x]]

EmptyResults == Results(<<>>, <<>>)
NoEnv == [fit_ok |-> TRUE, predict_ok |-> TRUE, predictions |-> <<>>, scores |-> <<>>]
NoLog == [id |-> Str("")]
NoInstance == [calls |-> 0]

-----------------------------------------------------------------------------
(* SpecRule: _rule_based_detection applied to one record *)

RuleInputs ==
    {ProcessedOf(RawLog(l, m)) : l \in LevelPool, m \in MessagePool}
    \cup {With(ProcessedOf(RawLog(l, "disk error")), "message", None) : l \in {"ERROR", "INFO"}}
    \cup {Without(ProcessedOf(RawLog(l, "disk error")), "level") : l \in {"ERROR"}}
    \cup {With(ProcessedOf(RawLog("INFO", m)), "level", None) : m \in {"disk error"}}
    \cup {With(ProcessedOf(RawLog(l, "disk error")), "features", None) : l \in {"ERROR", "WARN", "INFO"}}

InitRule ==
    /\ pc = "start"
    /\ logs \in {<<r>> : r \in RuleInputs}
    /\ rule_in = EmptyResults /\ ml_in = EmptyResults /\ ml_env = NoEnv
    /\ rule_out = EmptyResults /\ ml_out = EmptyResults
    /\ is_fitted = FALSE
    /\ in_log = NoLog /\ in_processed = NoLog /\ inst = NoInstance
    /\ result = EmptyResults

RuleBasedDetection ==
    /\ pc = "start"
    /\ pc' = "done"
    /\ rule_out' = _rule_based_detection(logs)
    /\ result' = rule_out'
    /\ UNCHANGED <<logs, rule_in, ml_in, ml_env, ml_out, is_fitted, in_log, in_processed, inst>>

NextRule == RuleBasedDetection

SpecRule == InitRule /\ [][NextRule]_vars

-----------------------------------------------------------------------------
(* SpecCombine: _combine_results applied to two result arrays *)

RuleEntries == BOOLEAN \X {100, 800}
MLEntries == BOOLEAN \X {0, 500, 700, 850}

ResultsOf(entries) ==
    Results([i \in 1..Len(entries) |-> entries[i][1]],
            [i \in 1..Len(entries) |-> entries[i][2]])

InitCombine ==
    /\ pc = "start"
    /\ \E n \in 0..MaxCombine : \E m \in 0..n :
          /\ rule_in \in {ResultsOf(e) : e \in [1..n -> RuleEntries]}
          /\ ml_in \in {ResultsOf(e) : e \in [1..m -> MLEntries]}
    /\ logs = <<>> /\ ml_env = NoEnv
    /\ rule_out = EmptyResults /\ ml_out = EmptyResults
    /\ is_fitted = FALSE
    /\ in_log = NoLog /\ in_processed = NoLog /\ inst = NoInstance
    /\ result = EmptyResults

CombineResults ==
    /\ pc = "start"
    /\ pc' = "done"
    /\ result' = _combine_results(rule_in, ml_in)
    /\ UNCHANGED <<logs, rule_in, ml_in, ml_env, rule_out, ml_out, is_fitted,
                   in_log, in_processed, inst>>

NextCombine == CombineResults

SpecCombine == InitCombine /\ [][NextCombine]_vars

-----------------------------------------------------------------------------
(* Spec: one call of detect_anomalies on a batch of processed logs *)

DetectPool ==
    { ProcessedOf(RawLog("ERROR", MsgScenario1)),
      ProcessedOf(RawLog("INFO", "User login ok")),
      ProcessedOf(RawLog("WARN", "disk error")),
      ProcessedOf(RawLog("INFO", "panic and crash")),
      ProcessedOf(Without(RawLog("FATAL", "disk error"), "message")),
      With(ProcessedOf(RawLog("INFO", "disk error")), "level", None) }

\* raw scores of score_samples, and offsets of the fitted ensemble: predict
\* labels a sample -1 when its raw score is below the offset
RawScores == {-10, -7, 0}
Offsets == {-8, 1}

MLEnvs(n) ==
    { [fit_ok |-> f, predict_ok |-> TRUE,
       predictions |-> [i \in 1..n |-> IF sc[i] < off THEN -1 ELSE 1],
       scores |-> sc] : f \in BOOLEAN, sc \in [1..n -> RawScores], off \in Offsets }
    \cup
    { [fit_ok |-> f, predict_ok |-> FALSE,
       predictions |-> [i \in 1..n |-> 1],
       scores |-> [i \in 1..n |-> 0]] : f \in BOOLEAN }

Init ==
    /\ pc = "start"
    /\ \E n \in 0..MaxBatch :
          /\ logs \in [1..n -> DetectPool]
          /\ ml_env \in MLEnvs(n)
    /\ is_fitted \in BOOLEAN
    /\ (is_fitted => ml_env.fit_ok)
    /\ rule_in = EmptyResults /\ ml_in = EmptyResults
    /\ rule_out = EmptyResults /\ ml_out = EmptyResults
    /\ in_log = NoLog /\ in_processed = NoLog /\ inst = NoInstance
    /\ result = EmptyResults

DetectAnomalies ==
    /\ pc = "start"
    /\ pc' = "done"
    /\ LET r == detect_anomalies(logs, is_fitted, ml_env)
       IN /\ result' = r.results
          /\ rule_out' = r.rule
          /\ ml_out' = r.ml
          /\ is_fitted' = r.is_fitted
    /\ UNCHANGED <<logs, rule_in, ml_in, ml_env, in_log, in_processed, inst>>

Next == DetectAnomalies

Spec == Init /\ [][Next]_vars

-----------------------------------------------------------------------------
(* SpecProcess: one call of LogPreprocessor.process on a batch of raw logs *)

RawPool ==
    { RawLog("ERROR", MsgScenario1),
      RawLog("INFO", "User   login\tok"),
      RawLog("warn", "disk error"),
      Without(RawLog("ERROR", "disk error"), "message"),
      Without(RawLog("INFO", "disk error"), "timestamp"),
      With(RawLog("INFO", "disk error"), "message", None),
      With(RawLog("INFO", "disk error"), "level", None),
      With(RawLog("ERROR", "disk error"), "message", PyInt(5)),
      With(RawLog("ERROR", "disk error"), "message", Dict([text |-> Str("disk error")])) }

InitProcess ==
    /\ pc = "start"
    /\ \E n \in 0..MaxRaw : logs \in [1..n -> RawPool]
    /\ rule_in = EmptyResults /\ ml_in = EmptyResults /\ ml_env = NoEnv
    /\ rule_out = EmptyResults /\ ml_out = EmptyResults
    /\ is_fitted = FALSE
    /\ in_log = NoLog /\ in_processed = NoLog /\ inst = NoInstance
    /\ result = [raised |-> FALSE, value |-> <<>>]

Process ==
    /\ pc = "start"
    /\ pc' = "done"
    /\ result' = process(logs)
    /\ UNCHANGED <<logs, rule_in, ml_in, ml_env, rule_out, ml_out, is_fitted,
                   in_log, in_processed, inst>>

NextProcess == Process

SpecProcess == InitProcess /\ [][NextProcess]_vars

-----------------------------------------------------------------------------
(* SpecAnalyze: one call of RootCauseAnalyzer.analyze on a record *)

MsgManyCategories ==
    "Out of memory: database connection timeout, authentication failed, slow query"

AnalyzeMessages ==
    { Str(MsgScenario1), Str(""), Str("User login ok"), Str("disk error"),
      Str("Panic and crash"), Str("connection refused by 10.0.0.1"),
      Str("Job failed with exception"),
      Str("HTTP 500 from api [req]"), Str(MsgManyCategories), Str("oops"), None }

AnalyzeLevels == { Str("ERROR"), Str("fatal"), Str("INFO"), Str("WARN"), None }

AnalyzeSources == { Str("api-gateway"), Str("worker"), Str("auth-service"), None }

\* the log dicts given to analyze; "absent" leaves the key out
AnalyzeLogs ==
    { [id |-> Str("1"), timestamp |-> Str("2024-01-01T10:00:00Z"),
       level |-> l, message |-> m, source |-> s] :
          l \in AnalyzeLevels, m \in AnalyzeMessages, s \in AnalyzeSources }
    \cup { Without(RawLog(l, "disk error"), k) :
              l \in {"ERROR", "INFO"}, k \in {"level", "message", "source"} }

\* the processed logs that go with a log: the one LogPreprocessor makes of it
\* (of its level and source alone when the message is None), the same with
\* the error-keyword flag set, with features None, and without features
AnalyzeProcessed(log) ==
    LET made == IF ProcessRecord(log).raised
                THEN ProcessRecord(Without(log, "message")).value
                ELSE ProcessRecord(log).value
    IN IF ProcessRecord(Without(log, "message")).raised
       THEN { [features |-> None], [cleaned_message |-> Str("")] }
       ELSE { made,
              With(made, "features", Dict(With(made.features[2], "has_error_keywords", TRUE))),
              With(made, "features", None),
              Without(made, "features") }

InitAnalyze ==
    /\ pc = "start"
    /\ in_log \in AnalyzeLogs
    /\ in_processed \in AnalyzeProcessed(in_log)
    /\ logs = <<>> /\ inst = NoInstance
    /\ rule_in = EmptyResults /\ ml_in = EmptyResults /\ ml_env = NoEnv
    /\ rule_out = EmptyResults /\ ml_out = EmptyResults
    /\ is_fitted = FALSE
    /\ result = Report(<<>>, <<>>)

Analyze ==
    /\ pc = "start"
    /\ pc' = "done"
    /\ result' = analyze(in_log, in_processed)
    /\ UNCHANGED <<logs, rule_in, ml_in, ml_env, rule_out, ml_out, is_fitted,
                   in_log, in_processed, inst>>

NextAnalyze == Analyze

SpecAnalyze == InitAnalyze /\ [][NextAnalyze]_vars

-----------------------------------------------------------------------------
(* SpecMatch: the category step of analyze, lines 216-225, on a message *)

MatchHeads ==
    { "Deadlock detected", "host unreachable", "heap space low", "High CPU",
      "slow query", "TLS error", "User login ok", "SQL error in mysql error" }

MatchTails ==
    { "",
      " while the nightly batch job was copying the archive of the previous month to cold storage",
      " after connection timeout", " and out of memory",
      " with authentication failed after timeout", " at line 5",
      " then exception raised", " for request 42" }

\* a message of 80 characters with the pattern 'deadlock' (score 0.5), one
\* of 120 characters with the pattern 'unauthorized' (score 0.7)
MsgAtHalf == "deadlock " \o Repeat("x", 71)
MsgAtSevenTenths == "unauthorized " \o Repeat("x", 107)

MatchMessages ==
    {h \o t : h \in MatchHeads, t \in MatchTails}
    \cup {MsgScenario1, MsgManyCategories, MsgAtHalf, MsgAtSevenTenths}

InitMatch ==
    /\ pc = "start"
    /\ in_log \in {[message |-> Str(m)] : m \in MatchMessages}
    /\ in_processed = NoLog /\ inst = NoInstance
    /\ logs = <<>> /\ ml_env = NoEnv
    /\ rule_in = EmptyResults /\ ml_in = EmptyResults
    /\ rule_out = EmptyResults /\ ml_out = EmptyResults
    /\ is_fitted = FALSE
    /\ result = [matched |-> <<>>, root_causes |-> <<>>, recommendations |-> <<>>]

\* lines 217-225: the matched categories and what they contribute
Contribution(cats, matched, message) ==
    [matched |-> matched,
     root_causes |-> CategoryItems(cats, matched, message, "root_causes"),
     recommendations |-> CategoryItems(cats, matched, message, "recommendations")]

MatchCategories ==
    /\ pc = "start"
    /\ pc' = "done"
    /\ result' = Contribution(error_pattern_categories,
                              _match_error_patterns_with_score(Lower(in_log.message[2])),
                              Lower(in_log.message[2]))
    /\ UNCHANGED <<logs, rule_in, ml_in, ml_env, rule_out, ml_out, is_fitted,
                   in_log, in_processed, inst>>

NextMatch == MatchCategories

SpecMatch == InitMatch /\ [][NextMatch]_vars

-----------------------------------------------------------------------------
(* SpecSource: the category step and the source step of analyze, lines
   216-225 and 238-242, on a source and a message *)

SourceNames ==
    { "api-gateway", "worker", "auth-service", "DB-primary", "billing", "" }

SourceMessages ==
    { "User login ok", "payment declined", "Stripe proxy timeout", "disk error",
      "mysql error on endpoint", MsgManyCategories, "oops",
      "transaction rolled back", "SQL error for user", "Session expired at gateway" }

InitSource ==
    /\ pc = "start"
    /\ in_log \in {[source |-> Str(s), message |-> Str(m)] :
                      s \in SourceNames, m \in SourceMessages}
    /\ in_processed = NoLog /\ inst = NoInstance
    /\ logs = <<>> /\ ml_env = NoEnv
    /\ rule_in = EmptyResults /\ ml_in = EmptyResults
    /\ rule_out = EmptyResults /\ ml_out = EmptyResults
    /\ is_fitted = FALSE
    /\ result = [by_source |-> NoAnalysis, matched |-> <<>>, root_causes |-> <<>>]

\* lines 217-225 and 239: what the categories and the source contribute
AnalyzeSource ==
    /\ pc = "start"
    /\ pc' = "done"
    /\ result' =
          [by_source |-> _analyze_by_source(in_log.source[2], Lower(in_log.message[2])),
           matched |-> _match_error_patterns_with_score(Lower(in_log.message[2])),
           root_causes |->
              CategoryItems(error_pattern_categories,
                            _match_error_patterns_with_score(Lower(in_log.message[2])),
                            Lower(in_log.message[2]), "root_causes")]
    /\ UNCHANGED <<logs, rule_in, ml_in, ml_env, rule_out, ml_out, is_fitted,
                   in_log, in_processed, inst>>

NextSource == AnalyzeSource

SpecSource == InitSource /\ [][NextSource]_vars

-----------------------------------------------------------------------------
(* SpecContext: the contextual step of analyze, _analyze_context, on a
   record and the processed record LogPreprocessor makes of it *)

ContextMessages ==
    { "", "oops", "123456789", "1234567890", MsgThousand, MsgThousandOne,
      "HTTP 500 from api [req]", "HTTP 503 from 10.0.0.1",
      "connection refused by 10.0.0.1", "parse {json} failed",
      "value [x] is bad", "bad token ]", "status 404", "code 5000 returned",
      "err 401!", "host 10.0.0.256 down", "version 1.2.3", "ip 1.2.3.4.5",
      "a[1]={2}", "User login ok", MsgScenario1, "[]", "{", "x403y", "403",
      "route 192.168.1.1:502", "peer 1234.1.1.1 lost", "Error 502: Bad Gateway",
      "{\"code\": 403, \"ip\": \"172.16.0.9\"}", "id_500 from 8.8.8.8" }

\* the records given to process: with and without a timestamp (the record
\* without one gets the fallback record)
ContextLogs ==
    { RawLog("ERROR", m) : m \in ContextMessages }
    \cup { Without(RawLog("ERROR", m), "timestamp") : m \in ContextMessages }

InitContext ==
    /\ pc = "start"
    /\ in_log \in ContextLogs
    /\ in_processed = ProcessRecord(in_log).value
    /\ logs = <<>> /\ inst = NoInstance
    /\ rule_in = EmptyResults /\ ml_in = EmptyResults /\ ml_env = NoEnv
    /\ rule_out = EmptyResults /\ ml_out = EmptyResults
    /\ is_fitted = FALSE
    /\ result = NoAnalysis

\* line 245: context_analysis = self._analyze_context(log, processed_log)
AnalyzeContext ==
    /\ pc = "start"
    /\ pc' = "done"
    /\ result' = _analyze_context(in_log, in_processed)
    /\ UNCHANGED <<logs, rule_in, ml_in, ml_env, rule_out, ml_out, is_fitted,
                   in_log, in_processed, inst>>

NextContext == AnalyzeContext

SpecContext == InitContext /\ [][NextContext]_vars

-----------------------------------------------------------------------------
(* SpecML: one call of _ml_based_detection on a batch, with every label and
   raw score the ensemble may return *)

MaxScores == 3       \* records in a batch given to _ml_based_detection

\* batches of n records: well-formed ones, or records whose features are None
MLBatches(n) ==
    { [i \in 1..n |-> ProcessedOf(RawLog("INFO", "User login ok"))],
      [i \in 1..n |-> With(ProcessedOf(RawLog("INFO", "User login ok")), "features", None)] }

\* what the ensemble does: labels are -1 or 1, raw scores are not positive
EnsembleEnvs(n) ==
    { [fit_ok |-> f, predict_ok |-> p, predictions |-> pr, scores |-> sc] :
         f \in BOOLEAN, p \in BOOLEAN,
         pr \in [1..n -> {-1, 1}], sc \in [1..n -> RawScores] }

InitML ==
    /\ pc = "start"
    /\ \E n \in 0..MaxScores :
          /\ logs \in MLBatches(n)
          /\ ml_env \in EnsembleEnvs(n)
    /\ is_fitted \in BOOLEAN
    /\ (is_fitted => ml_env.fit_ok)
    /\ rule_in = EmptyResults /\ ml_in = EmptyResults
    /\ rule_out = EmptyResults /\ ml_out = EmptyResults
    /\ in_log = NoLog /\ in_processed = NoLog /\ inst = NoInstance
    /\ result = EmptyResults

MLBasedDetection ==
    /\ pc = "start"
    /\ pc' = "done"
    /\ ml_out' = _ml_based_detection(logs, is_fitted, ml_env).results
    /\ result' = ml_out'
    /\ is_fitted' = _ml_based_detection(logs, is_fitted, ml_env).is_fitted
    /\ UNCHANGED <<logs, rule_in, ml_in, ml_env, rule_out, in_log, in_processed, inst>>

NextML == MLBasedDetection

SpecML == InitML /\ [][NextML]_vars

-----------------------------------------------------------------------------
(* SpecRepeat: _combine_results called twice on the same arrays, then on
   the arrays with their records in another order *)

RepeatMLEntries == BOOLEAN \X {0, 850}

\* the orders in which n records can be presented
Orders(n) == {p \in [1..n -> 1..n] : \A i, j \in 1..n : p[i] = p[j] => i = j}

\* the result arrays with their records in the order p
Reordered(results, p) ==
    Results([i \in 1..Len(p) |-> results.is_anomaly[p[i]]],
            [i \in 1..Len(p) |-> results.scores[p[i]]])

NoCalls ==
    [first |-> EmptyResults, second |-> EmptyResults,
     order |-> <<>>, permuted |-> EmptyResults]

InitRepeat ==
    /\ pc = "start"
    /\ \E n \in 0..MaxCombine : \E m \in 0..n :
          /\ rule_in \in {ResultsOf(e) : e \in [1..n -> RuleEntries]}
          /\ ml_in \in {ResultsOf(e) : e \in [1..m -> RepeatMLEntries]}
    /\ is_fitted \in BOOLEAN
    /\ logs = <<>> /\ ml_env = NoEnv
    /\ rule_out = EmptyResults /\ ml_out = EmptyResults
    /\ in_log = NoLog /\ in_processed = NoLog /\ inst = NoInstance
    /\ result = NoCalls

CombineFirst ==
    /\ pc = "start"
    /\ pc' = "once"
    /\ result' = [result EXCEPT !.first = _combine_results(rule_in, ml_in)]
    /\ UNCHANGED <<logs, rule_in, ml_in, ml_env, rule_out, ml_out, is_fitted,
                   in_log, in_processed, inst>>

CombineSecond ==
    /\ pc = "once"
    /\ pc' = "twice"
    /\ result' = [result EXCEPT !.second = _combine_results(rule_in, ml_in)]
    /\ UNCHANGED <<logs, rule_in, ml_in, ml_env, rule_out, ml_out, is_fitted,
                   in_log, in_processed, inst>>

\* the arrays of a batch whose records come in another order; the two
\* arrays have one entry per record
CombinePermuted ==
    /\ pc = "twice"
    /\ Len(ml_in.is_anomaly) = Len(rule_in.is_anomaly)
    /\ pc' = "done"
    /\ \E p \in Orders(Len(rule_in.is_anomaly)) :
          result' = [result EXCEPT
                        !.order = p,
                        !.permuted = _combine_results(Reordered(rule_in, p),
                                                      Reordered(ml_in, p))]
    /\ UNCHANGED <<logs, rule_in, ml_in, ml_env, rule_out, ml_out, is_fitted,
                   in_log, in_processed, inst>>

NextRepeat == CombineFirst \/ CombineSecond \/ CombinePermuted

SpecRepeat == InitRepeat /\ [][NextRepeat]_vars

-----------------------------------------------------------------------------
(* SpecLife: the construction of an AnomalyDetector and a sequence of calls *)
(* of detect_anomalies on it                                               *)

MaxCalls == 2        \* calls of detect_anomalies on the instance

LifeBatches ==
    { <<>>,
      <<ProcessedOf(RawLog("INFO", "User login ok"))>>,
      <<ProcessedOf(RawLog("ERROR", MsgScenario1)), ProcessedOf(RawLog("WARN", "disk error"))>>,
      <<With(ProcessedOf(RawLog("INFO", "disk error")), "level", None)>>,
      <<With(ProcessedOf(RawLog("ERROR", "disk error")), "features", None)>> }

LifeEnvs == {"scaler_fails", "model_fails", "save_fails", "ok"}

NoLifeEnv == "ok"

\* the instance after __init__: startup_blobs and load_ok are what the
\* constructor found, the counters record what the calls did
Constructed(blobs, load_ok) ==
    [startup_blobs |-> blobs, load_ok |-> load_ok,
     loaded |-> _load_model(blobs, load_ok),
     blobs |-> blobs, calls |-> 0,
     attempts |-> 0, scaler_fits |-> 0, fits |-> 0, saves |-> 0,
     attempted_on |-> <<>>, trained_on |-> <<>>,
     first_batch |-> <<>>, first_env |-> NoLifeEnv,
     fit_inputs |-> {}, predict_inputs |-> {}]

InitLife ==
    /\ pc = "ready"
    /\ \E blobs \in SUBSET Blobs, load_ok \in BOOLEAN :
          /\ inst = Constructed(blobs, load_ok)
          /\ is_fitted = _load_model(blobs, load_ok)
    /\ logs = <<>> /\ ml_env = NoLifeEnv
    /\ rule_in = EmptyResults /\ ml_in = EmptyResults
    /\ rule_out = EmptyResults /\ ml_out = EmptyResults
    /\ in_log = NoLog /\ in_processed = NoLog
    /\ result = EmptyResults

\* the record of the instance after a call on batch with environment e:
\* reached is whether the call entered _fit_model
AfterCall(i, batch, e, reached) ==
    [i EXCEPT
       !.calls = @ + 1,
       !.attempts = IF reached THEN @ + 1 ELSE @,
       !.attempted_on = IF reached THEN batch ELSE @,
       !.scaler_fits = IF reached /\ ScalerFitted(e) THEN @ + 1 ELSE @,
       !.fits = IF reached /\ ModelFitted(e) THEN @ + 1 ELSE @,
       !.trained_on = IF reached /\ ModelFitted(e) THEN batch ELSE @,
       !.saves = IF reached /\ ModelFitted(e) THEN @ + 1 ELSE @,
       !.blobs = IF reached /\ ModelFitted(e) THEN _save_model(@, e) ELSE @,
       !.first_batch = IF @ = <<>> THEN batch ELSE @,
       !.first_env = IF i.first_batch = <<>> THEN e ELSE @,
       !.fit_inputs = IF reached /\ ScalerFitted(e) THEN @ \cup {FitInput} ELSE @,
       !.predict_inputs = IF ReachesPredict(batch) THEN @ \cup {PredictInput} ELSE @]

Call ==
    /\ pc = "ready"
    /\ inst.calls < MaxCalls
    /\ \E batch \in LifeBatches, e \in LifeEnvs :
          /\ logs' = batch
          /\ ml_env' = e
          /\ result' = detect_anomalies(batch, is_fitted, EnvOf(e, Len(batch))).results
          /\ is_fitted' = FittedAfter(batch, is_fitted, e)
          /\ inst' = AfterCall(inst, batch, e, ReachesFit(batch, is_fitted))
    /\ UNCHANGED <<pc, rule_in, ml_in, rule_out, ml_out, in_log, in_processed>>

NextLife == Call

SpecLife == InitLife /\ [][NextLife]_vars

-----------------------------------------------------------------------------
(* SpecConc: threads of the service's pool calling detect_anomalies on one *)
(* instance at the same time.  Each thread is at the statement of          *)
(* _ml_based_detection or _fit_model that it is executing; nothing in the  *)
(* code orders the statements of different threads.                        *)

MaxThreads == 2      \* threads inside detect_anomalies at the same time

Threads == 1..MaxThreads

\* the statements of _fit_model
FitStatements == {"scale", "fit", "mark", "save"}

InitConc ==
    /\ pc = [t \in Threads |-> "check"]
    /\ \E blobs \in SUBSET Blobs, load_ok \in BOOLEAN :
          /\ inst = Constructed(blobs, load_ok)
          /\ is_fitted = _load_model(blobs, load_ok)
    /\ result = [t \in Threads |-> "none"]
    /\ logs = <<>> /\ ml_env = NoLifeEnv
    /\ rule_in = EmptyResults /\ ml_in = EmptyResults
    /\ rule_out = EmptyResults /\ ml_out = EmptyResults
    /\ in_log = NoLog /\ in_processed = NoLog

Others == <<logs, rule_in, ml_in, ml_env, rule_out, ml_out, in_log, in_processed>>

\* line 120: if not self.is_fitted
CheckFitted(t) ==
    /\ pc[t] = "check"
    /\ pc' = [pc EXCEPT ![t] = IF NeedsFit(is_fitted) THEN "scale" ELSE "predict"]
    /\ inst' = [inst EXCEPT !.attempts = IF NeedsFit(is_fitted) THEN @ + 1 ELSE @]
    /\ UNCHANGED <<is_fitted, result, Others>>

\* line 236: self.scaler.fit_transform(features); an exception leaves
\* _fit_model through its except clause
ScalerFit(t) ==
    /\ pc[t] = "scale"
    /\ \E ok \in BOOLEAN :
          /\ pc' = [pc EXCEPT ![t] = IF ok THEN "fit" ELSE "predict"]
          /\ inst' = [inst EXCEPT !.scaler_fits = IF ok THEN @ + 1 ELSE @]
    /\ UNCHANGED <<is_fitted, result, Others>>

\* line 239: self.model.fit(scaled_features)
ModelFit(t) ==
    /\ pc[t] = "fit"
    /\ \E ok \in BOOLEAN :
          /\ pc' = [pc EXCEPT ![t] = IF ok THEN "mark" ELSE "predict"]
          /\ inst' = [inst EXCEPT !.fits = IF ok THEN @ + 1 ELSE @]
    /\ UNCHANGED <<is_fitted, result, Others>>

\* line 240: self.is_fitted = True
MarkFitted(t) ==
    /\ pc[t] = "mark"
    /\ pc' = [pc EXCEPT ![t] = "save"]
    /\ is_fitted' = TRUE
    /\ UNCHANGED <<inst, result, Others>>

\* line 243: self._save_model()
SaveModel(t) ==
    /\ pc[t] = "save"
    /\ pc' = [pc EXCEPT ![t] = "predict"]
    /\ \E e \in {"ok", "save_fails"} :
          inst' = [inst EXCEPT !.saves = @ + 1, !.blobs = _save_model(@, e)]
    /\ UNCHANGED <<is_fitted, result, Others>>

\* lines 124-125: self.model.predict, self.model.score_samples.  On an
\* ensemble no thread has fitted they raise; on one that another thread is
\* fitting they raise or return scores
Predict(t) ==
    /\ pc[t] = "predict"
    /\ pc' = [pc EXCEPT ![t] = "done"]
    /\ \E outcome \in {"scored", "default"} :
          /\ (inst.fits = 0 /\ ~inst.loaded) => outcome = "default"
          /\ (outcome = "default") =>
                \/ inst.fits = 0 /\ ~inst.loaded
                \/ \E u \in Threads \ {t} : pc[u] = "fit"
          /\ result' = [result EXCEPT ![t] = outcome]
    /\ UNCHANGED <<is_fitted, inst, Others>>

NextConc ==
    \E t \in Threads :
        \/ CheckFitted(t)
        \/ ScalerFit(t)
        \/ ModelFit(t)
        \/ MarkFitted(t)
        \/ SaveModel(t)
        \/ Predict(t)

SpecConc == InitConc /\ [][NextConc]_vars

-----------------------------------------------------------------------------
(* Claims about the rule scorer (SpecRule) *)

HasStr(r, k) == k \in DOMAIN r /\ IsStr(r[k])

\* C2: every record whose level is ERROR, FATAL or CRITICAL, in any letter
\* case, is returned by the rule scorer as an anomaly with score >= 0.8,
\* whatever its message and features are.
C2_ErrorLevelIsAnomaly ==
    (pc = "done" /\ ~rule_out.raised) =>
        \A i \in 1..Len(logs) :
            (HasStr(logs[i], "level")
               /\ Lower(logs[i].level[2]) \in {"error", "fatal", "critical"})
            => (rule_out.is_anomaly[i] /\ rule_out.scores[i] >= 800)

\* a mixed-case FATAL record whose message is long and holds two critical
\* keywords has been scored
C2_Witness ==
    /\ pc = "done" /\ ~rule_out.raised
    /\ Get(logs[1], "level", None) = Str("Fatal")
    /\ Get(logs[1], "message", None) = Str(MsgLongCritical)
    /\ rule_out.is_anomaly = <<TRUE>> /\ rule_out.scores = <<800>>

\* The conditions of the six rules on a record, and their outcomes
RuleConditions(r) ==
    LET level == Upper(Get(r, "level", Str(""))[2])
        message == Lower(Get(r, "message", Str(""))[2])
        features == Get(r, "features", Dict([x \in {} |-> 0]))
    IN << level \in {"ERROR", "FATAL", "CRITICAL"},
          200 * CountIn(rule_critical_keywords, message) >= 400,
          level = "WARN" /\ IsDict(features) /\ Get(features[2], "has_error_keywords", FALSE),
          Len(message) > 1000,
          ContainsAny(error_patterns, message),
          TRUE >>

RuleOutcomes(r) ==
    LET message == Lower(Get(r, "message", Str(""))[2])
    IN << <<TRUE, 800>>,
          <<TRUE, Min(900, 500 + 200 * CountIn(rule_critical_keywords, message))>>,
          <<TRUE, 600>>, <<TRUE, 500>>, <<TRUE, 700>>, <<FALSE, 100>> >>

FirstRule(r) ==
    CHOOSE k \in 1..6 : RuleConditions(r)[k] /\ \A j \in 1..(k - 1) : ~RuleConditions(r)[j]

\* C3: the rule scorer is a first-match-wins decision list: the result of a
\* record is the outcome of the lowest-numbered rule whose condition holds.
C3_FirstMatchWins ==
    (pc = "done" /\ ~rule_out.raised) =>
        \A i \in 1..Len(logs) :
            <<rule_out.is_anomaly[i], rule_out.scores[i]>>
                = RuleOutcomes(logs[i])[FirstRule(logs[i])]

\* a WARN record with an error keyword and a 1500-character message scores 0.6
C3_Witness ==
    /\ pc = "done" /\ ~rule_out.raised
    /\ Get(logs[1], "level", None) = Str("WARN")
    /\ Get(logs[1], "message", None) = Str(MsgLongError)
    /\ IsDict(logs[1].features)
    /\ logs[1].features[2].has_error_keywords
    /\ logs[1].features[2].message_length = 1500
    /\ rule_out.is_anomaly = <<TRUE>> /\ rule_out.scores = <<600>>

\* C14: rule 2 counts the keywords of the critical-keyword list of the
\* Feature Extractor (with 'null pointer', 'stack overflow', 'access
\* denied', 'permission denied'), 0.2 for each keyword present: every record
\* whose level is not an error level and whose message contains at least
\* two keywords of that list is an anomaly with score min(0.9, 0.5 + 0.2
\* for each keyword).
C14_Rule2CountsExtractorKeywords ==
    (/\ pc = "done"
     /\ ~rule_out.raised
     /\ HasStr(logs[1], "level") /\ HasStr(logs[1], "message")
     /\ Upper(logs[1].level[2]) \notin {"ERROR", "FATAL", "CRITICAL"}
     /\ CountIn(critical_keywords, Lower(logs[1].message[2])) >= 2)
    => /\ rule_out.is_anomaly[1] = TRUE
       /\ rule_out.scores[1] =
             Min(900, 500 + 200 * CountIn(critical_keywords, Lower(logs[1].message[2])))

\* the record is one the rule scorer reads without raising, and none of
\* rules 1 to 3 applies to it
RulesOneToThreeSilent(r) ==
    /\ HasStr(r, "level") /\ HasStr(r, "message")
    /\ "features" \in DOMAIN r /\ IsDict(r.features)
    /\ Upper(r.level[2]) \notin {"ERROR", "FATAL", "CRITICAL"}
    /\ CountIn(rule_critical_keywords, Lower(r.message[2])) < 2
    /\ ~(Upper(r.level[2]) = "WARN" /\ Get(r.features[2], "has_error_keywords", FALSE))

\* C23: every record whose message is longer than 1000 characters is
\* returned by the rule scorer as an anomaly with score >= 0.5, and with
\* score exactly 0.5 when rules 1 to 3 do not apply; a message of exactly
\* 1000 characters does not trigger rule 4.
C23_LongMessageIsAnomaly ==
    (pc = "done" /\ ~rule_out.raised) =>
        \A i \in 1..Len(logs) :
            /\ (HasStr(logs[i], "message") /\ Len(logs[i].message[2]) > 1000)
                  => /\ rule_out.is_anomaly[i]
                     /\ rule_out.scores[i] >= 500
                     /\ RulesOneToThreeSilent(logs[i]) => rule_out.scores[i] = 500
            /\ (/\ RulesOneToThreeSilent(logs[i])
                /\ Len(logs[i].message[2]) = 1000
                /\ ~ContainsAny(error_patterns, Lower(logs[i].message[2])))
                  => /\ ~rule_out.is_anomaly[i]
                     /\ rule_out.scores[i] = 100

\* an INFO record with a message of 1500 characters and no critical keyword
\* has been scored 0.5
C23_Witness ==
    /\ pc = "done" /\ ~rule_out.raised
    /\ Get(logs[1], "level", None) = Str("INFO")
    /\ Get(logs[1], "message", None) = Str(MsgLong)
    /\ RulesOneToThreeSilent(logs[1])
    /\ rule_out.is_anomaly = <<TRUE>> /\ rule_out.scores = <<500>>

\* C30: rule 3 matches only the level that upper-cases to exactly 'WARN': a
\* record with level 'WARNING' (severity weight 4, as WARN) whose
\* error-keyword flag is true, whose message holds fewer than two rule-2
\* keywords and no frequent-error-pattern substring and is at most 1000
\* characters long, is returned as (anomaly = false, score = 0.1).
C30_WarningIsNotWarn ==
    (pc = "done" /\ ~rule_out.raised) =>
        \A i \in 1..Len(logs) :
            (/\ HasStr(logs[i], "level") /\ HasStr(logs[i], "message")
             /\ "features" \in DOMAIN logs[i] /\ IsDict(logs[i].features)
             /\ Upper(logs[i].level[2]) = "WARNING"
             /\ Get(logs[i].features[2], "has_error_keywords", FALSE)
             /\ CountIn(rule_critical_keywords, Lower(logs[i].message[2])) < 2
             /\ ~ContainsAny(error_patterns, Lower(logs[i].message[2]))
             /\ Len(logs[i].message[2]) <= 1000)
            => /\ Get(logs[i].features[2], "level_numeric", 0) = 4
               /\ ~rule_out.is_anomaly[i]
               /\ rule_out.scores[i] = 100

\* a WARNING record with the message 'disk error' (error-keyword flag true)
\* has been scored 0.1
C30_Witness ==
    /\ pc = "done" /\ ~rule_out.raised
    /\ Get(logs[1], "level", None) = Str("WARNING")
    /\ Get(logs[1], "message", None) = Str("disk error")
    /\ IsDict(logs[1].features)
    /\ logs[1].features[2].has_error_keywords
    /\ logs[1].features[2].level_numeric = 4
    /\ rule_out.is_anomaly = <<FALSE>> /\ rule_out.scores = <<100>>

\* rule 2 fires on the record: rule 1 does not apply and the message holds
\* two keywords or more of the list of rule 2
RuleTwoFires(r) ==
    /\ HasStr(r, "level") /\ HasStr(r, "message")
    /\ Upper(r.level[2]) \notin {"ERROR", "FATAL", "CRITICAL"}
    /\ CountIn(rule_critical_keywords, Lower(r.message[2])) >= 2

\* C26: whenever rule 2 fires the returned score is exactly 0.9, for two
\* keywords as well as for any larger number; the rule scorer never
\* returns a score other than 0.1, 0.5, 0.6, 0.7, 0.8 or 0.9, and returns
\* anomaly = false exactly when the score is 0.1.
C26_RuleTwoScoreIsCap ==
    (pc = "done" /\ ~rule_out.raised) =>
        \A i \in 1..Len(logs) :
            /\ RuleTwoFires(logs[i]) =>
                  rule_out.is_anomaly[i] /\ rule_out.scores[i] = 900
            /\ rule_out.scores[i] \in {100, 500, 600, 700, 800, 900}
            /\ ~rule_out.is_anomaly[i] <=> rule_out.scores[i] = 100

\* an INFO record whose message holds three keywords of rule 2 ('failed',
\* 'exception', 'abort') has been scored 0.9
C26_Witness ==
    /\ pc = "done" /\ ~rule_out.raised
    /\ Get(logs[1], "level", None) = Str("INFO")
    /\ RuleTwoFires(logs[1])
    /\ CountIn(rule_critical_keywords, Lower(logs[1].message[2])) = 3
    /\ rule_out.is_anomaly = <<TRUE>> /\ rule_out.scores = <<900>>

-----------------------------------------------------------------------------
(* Claims about the combiner (SpecCombine) *)

\* C1: at every index, _combine_results yields (true, max(rule, ml)) when
\* the rule scorer says anomaly; otherwise (true, ml) when the outlier model
\* says anomaly and its score is strictly above 0.7; otherwise
\* (false, min(rule, ml)).
C1_CombineRule ==
    pc = "done" =>
        /\ ~result.raised
        /\ Len(result.is_anomaly) = Len(rule_in.is_anomaly)
        /\ Len(result.scores) = Len(rule_in.is_anomaly)
        /\ \A i \in 1..Len(ml_in.is_anomaly) :
              LET ra == rule_in.is_anomaly[i]
                  rs == rule_in.scores[i]
                  ma == ml_in.is_anomaly[i]
                  ms == ml_in.scores[i]
                  out == <<result.is_anomaly[i], result.scores[i]>>
              IN /\ ra => out = <<TRUE, IF rs >= ms THEN rs ELSE ms>>
                 /\ (~ra /\ ma /\ ms > 700) => out = <<TRUE, ms>>
                 /\ (~ra /\ ~(ma /\ ms > 700)) => out = <<FALSE, IF rs <= ms THEN rs ELSE ms>>

\* rule=(false,0.1), ml=(true,0.85) gave (true,0.85); rule=(false,0.1),
\* ml=(true,0.5) gave (false,0.1); rule=(false,0.1), ml=(true,0.7) gave (false,0.1)
C1_Witness ==
    /\ pc = "done"
    /\ \E i \in 1..Len(ml_in.is_anomaly) :
          /\ <<rule_in.is_anomaly[i], rule_in.scores[i]>> = <<FALSE, 100>>
          /\ <<ml_in.is_anomaly[i], ml_in.scores[i]>> = <<TRUE, 850>>
          /\ <<result.is_anomaly[i], result.scores[i]>> = <<TRUE, 850>>
    /\ \E i \in 1..Len(ml_in.is_anomaly) :
          /\ <<rule_in.is_anomaly[i], rule_in.scores[i]>> = <<FALSE, 100>>
          /\ <<ml_in.is_anomaly[i], ml_in.scores[i]>> \in {<<TRUE, 500>>, <<TRUE, 700>>}
          /\ <<result.is_anomaly[i], result.scores[i]>> = <<FALSE, 100>>

-----------------------------------------------------------------------------
(* Claims about detect_anomalies (Spec) *)

Prefix(r, k) ==
    Results(SubSeq(r.is_anomaly, 1, Min(k, Len(r.is_anomaly))),
            SubSeq(r.scores, 1, Min(k, Len(r.scores))))

\* the verdict the claims expect of record i on the path without exception
ExpectedAnomaly(i) ==
    \/ RuleRecord(logs[i]).is_anomaly
    \/ (i \in 1..Len(ml_out.is_anomaly) /\ ml_out.is_anomaly[i] /\ ml_out.scores[i] > 700)

\* C4: detect_anomalies returns, on every path, an is_anomaly array and a
\* scores array as long as the batch, entry i describing record i; the
\* combiner does so too when the ML result is shorter than the batch.
C4_LengthPreserved ==
    pc = "done" =>
        /\ ~result.raised
        /\ Len(result.is_anomaly) = Len(logs)
        /\ Len(result.scores) = Len(logs)
        /\ (~rule_out.raised /\ Len(logs) > 0) =>
              /\ \A i \in 1..Len(logs) : result.is_anomaly[i] = ExpectedAnomaly(i)
              /\ \A k \in 0..Len(logs) :
                    LET short == _combine_results(rule_out, Prefix(ml_out, k))
                    IN /\ ~short.raised
                       /\ Len(short.is_anomaly) = Len(logs)
                       /\ Len(short.scores) = Len(logs)
                       /\ \A i \in 1..k : short.is_anomaly[i] = result.is_anomaly[i]
        /\ rule_out.raised =>
              \A i \in 1..Len(logs) : ~result.is_anomaly[i] /\ result.scores[i] = 0

\* a two-record batch went through the exception path
C4_Witness ==
    /\ pc = "done" /\ Len(logs) = 2 /\ rule_out.raised
    /\ result.is_anomaly = <<FALSE, FALSE>> /\ result.scores = <<0, 0>>

WellFormed(r) == ~RuleRecord(r).raised

IsErrorLevel(r) ==
    HasStr(r, "level") /\ Lower(r.level[2]) \in {"error", "fatal", "critical"}

\* C5: every record of a batch whose level is ERROR, FATAL or CRITICAL is
\* reported as an anomaly with score >= 0.8, whatever the outlier model
\* returns and whatever the other records of the batch contain.
C5_ErrorRecordSurvivesBatch ==
    pc = "done" =>
        \A i \in 1..Len(logs) :
            (IsErrorLevel(logs[i]) /\ WellFormed(logs[i]))
            => (result.is_anomaly[i] /\ result.scores[i] >= 800)

MLFailed == (~is_fitted /\ ~ml_env.fit_ok) \/ ~ml_env.predict_ok

\* C10: when fitting or prediction fails during a batch, the ML contribution
\* is (false, 0.0) for every record and the final verdict of every record is
\* the rule scorer's, with the rule score for rule anomalies.
C10_MLFailureKeepsRules ==
    (pc = "done" /\ Len(logs) > 0 /\ ~rule_out.raised /\ MLFailed) =>
        /\ ~result.raised
        /\ ml_out = _get_default_results(Len(logs))
        /\ \A i \in 1..Len(logs) :
              /\ result.is_anomaly[i] = RuleRecord(logs[i]).is_anomaly
              /\ RuleRecord(logs[i]).is_anomaly => result.scores[i] = RuleRecord(logs[i]).score
              /\ ~RuleRecord(logs[i]).is_anomaly => result.scores[i] = 0

\* the fit failed on a batch holding a rule anomaly and a normal record
C10_Witness ==
    /\ pc = "done" /\ Len(logs) = 2 /\ ~rule_out.raised
    /\ ~is_fitted /\ ~ml_env.fit_ok /\ ml_env.predict_ok
    /\ result.is_anomaly = <<TRUE, FALSE>> /\ result.scores = <<800, 0>>

\* the ML contribution of the call is the failure default
MLDefaulted ==
    \/ rule_out.raised
    \/ MLFailed
    \/ \E i \in 1..Len(logs) :
          ~IsDict(Get(logs[i], "features", Dict([x \in {} |-> 0])))

\* C27: in every result of detect_anomalies the verdict and the score are
\* separated by a gap: a record that is not an anomaly has a score <= 0.1
\* (exactly 0.0 when the ML contribution is the failure default), an anomaly
\* has a score >= 0.5 when a rule flagged it and > 0.7 when the ML signal
\* alone did; no score lies strictly between 0.1 and 0.5.
C27_VerdictScoreGap ==
    pc = "done" =>
        \A i \in 1..Len(logs) :
            /\ ~result.is_anomaly[i] =>
                  /\ result.scores[i] <= 100
                  /\ MLDefaulted => result.scores[i] = 0
            /\ result.is_anomaly[i] =>
                  /\ ~rule_out.raised
                  /\ rule_out.is_anomaly[i] => result.scores[i] >= 500
                  /\ ~rule_out.is_anomaly[i] => result.scores[i] > 700
            /\ ~(result.scores[i] > 100 /\ result.scores[i] < 500)

\* two records that no rule flags: the outlier model alone flagged the
\* first one with score 1.0, the second one stayed normal with its score
\* below the rule score 0.1
C27_Witness ==
    /\ pc = "done" /\ Len(logs) = 2 /\ ~rule_out.raised
    /\ rule_out.is_anomaly = <<FALSE, FALSE>>
    /\ rule_out.scores = <<100, 100>>
    /\ ml_out.scores = <<1000, 0>>
    /\ result.is_anomaly = <<TRUE, FALSE>>
    /\ result.scores = <<1000, 0>>

\* C28: for a batch of exactly one record the outlier model never promotes
\* the record: its normalized ML score is 0.0 (a single raw score, or the
\* failure default), so the final verdict is the rule scorer's and the
\* final score is the rule score for a rule anomaly and 0.0 otherwise,
\* whether the model was fitted before the call or not.
C28_SingleRecordFollowsRules ==
    (pc = "done" /\ Len(logs) = 1 /\ ~rule_out.raised) =>
        /\ ml_out.scores = <<0>>
        /\ result.is_anomaly = rule_out.is_anomaly
        /\ rule_out.is_anomaly[1] => result.scores = rule_out.scores
        /\ ~rule_out.is_anomaly[1] => result.scores = <<0>>

\* a record that no rule flags and that the ensemble labelled an outlier
\* stayed normal with score 0.0
C28_Witness ==
    /\ pc = "done" /\ Len(logs) = 1 /\ ~rule_out.raised
    /\ is_fitted /\ ml_env.predict_ok
    /\ ml_env.predictions = <<-1>>
    /\ ml_out.is_anomaly = <<TRUE>>
    /\ rule_out.is_anomaly = <<FALSE>>
    /\ result.is_anomaly = <<FALSE>> /\ result.scores = <<0>>

-----------------------------------------------------------------------------
(* Claims about LogPreprocessor.process (SpecProcess) *)

\* C9: process never fails the batch: no exception escapes it, it returns
\* one processed record per input record, in input order, a record whose
\* extraction throws receives the fallback record and every other record
\* of the batch is processed normally.
C9_ProcessNeverFails ==
    pc = "done" =>
        /\ ~result.raised
        /\ Len(result.value) = Len(logs)
        /\ \A i \in 1..Len(logs) :
              result.value[i] = IF _process_single_log_raises(logs[i])
                                THEN _create_fallback_log(logs[i])
                                ELSE _process_single_log(logs[i])

\* C15: the fallback record that process substitutes when the extraction
\* of a record throws has a feature vector in which every numeric field is
\* 0, message length and severity weight included, and every boolean field
\* is false, and its cleaned message is the raw message, or the empty
\* string when the message is absent.
C15_FallbackIsZeroed ==
    (pc = "done" /\ ~result.raised) =>
        \A i \in 1..Len(logs) :
            _process_single_log_raises(logs[i]) =>
                /\ result.value[i].cleaned_message = Get(logs[i], "message", Str(""))
                /\ \A k \in {"message_length", "level_numeric", "critical_keyword_count",
                             "error_pattern_score", "stack_trace_indicator",
                             "message_entropy"} :
                      result.value[i].features[2][k] = 0
                /\ \A k \in {"has_error_keywords", "has_warning_keywords",
                             "is_error_level"} :
                      result.value[i].features[2][k] = FALSE

-----------------------------------------------------------------------------
(* Claims about RootCauseAnalyzer.analyze (SpecAnalyze) *)

Range(s) == {s[i] : i \in 1..Len(s)}

NoDuplicates(s) == \A i, j \in 1..Len(s) : s[i] = s[j] => i = j

FirstIndex(s, x) == SetMin({j \in 1..Len(s) : s[j] = x})

\* r is the first (up to) n distinct strings of s, in first-seen order
IsFirstDistinct(r, s, n) ==
    /\ Len(r) = Min(n, Cardinality(Range(s)))
    /\ \A i \in 1..Len(r) :
          /\ r[i] \in Range(s)
          /\ Cardinality({x \in Range(s) : FirstIndex(s, x) < FirstIndex(s, r[i])}) = i - 1

\* C6: both lists that analyze returns have at most 4 entries and no
\* duplicate string on every path, and on the normal path each is exactly
\* the first (up to) 4 distinct strings of the discovered entries, in
\* first-seen order.
C6_ListsBoundedAndDistinct ==
    pc = "done" =>
        LET d == Discover(in_log, in_processed)
        IN /\ Len(result.root_causes) <= 4
           /\ Len(result.recommendations) <= 4
           /\ NoDuplicates(result.root_causes)
           /\ NoDuplicates(result.recommendations)
           /\ (~d.raised /\ d.worthy) =>
                 /\ IsFirstDistinct(result.root_causes, d.root_causes, 4)
                 /\ IsFirstDistinct(result.recommendations, d.recommendations, 4)

\* a record with more than 4 discovered causes and recommendations was analyzed
C6_Witness ==
    /\ pc = "done"
    /\ ~Discover(in_log, in_processed).raised
    /\ Len(Discover(in_log, in_processed).root_causes) > 4
    /\ Len(Discover(in_log, in_processed).recommendations) > 4
    /\ Len(result.root_causes) = 4
    /\ Len(result.recommendations) = 4

\* the level of the record, upper-cased, is an error level
HasErrorLevel(log) ==
    /\ IsStr(Get(log, "level", Str("")))
    /\ Upper(Get(log, "level", Str(""))[2]) \in {"ERROR", "FATAL", "CRITICAL"}

\* the has_error_keywords flag of the processed record is set
ErrorKeywordFlag(processed_log) ==
    /\ "features" \in DOMAIN processed_log
    /\ IsDict(processed_log.features)
    /\ Get(processed_log.features[2], "has_error_keywords", FALSE)

\* C7: a record whose level is not an error level (case-insensitively) and
\* whose has_error_keywords flag is false gets an empty root_causes list and
\* an empty recommendations list, whatever its message, source and other
\* features.
C7_NotWorthyIsEmpty ==
    (/\ pc = "done"
     /\ IsStr(Get(in_log, "level", Str("")))
     /\ Get(in_log, "message", None)[1] \in {"str", "none"}
     /\ IsDict(Get(in_processed, "features", Dict([x \in {} |-> 0])))
     /\ ~HasErrorLevel(in_log)
     /\ ~ErrorKeywordFlag(in_processed))
    => /\ result.root_causes = <<>>
       /\ result.recommendations = <<>>

\* an INFO record without error keywords, whose message and source would
\* feed the source and context steps, was analyzed
C7_Witness ==
    /\ pc = "done"
    /\ Get(in_log, "level", None) = Str("INFO")
    /\ Get(in_log, "message", None) = Str("HTTP 500 from api [req]")
    /\ Get(in_log, "source", None) = Str("api-gateway")
    /\ "features" \in DOMAIN in_processed
    /\ IsDict(in_processed.features)
    /\ ~ErrorKeywordFlag(in_processed)
    /\ result.root_causes = <<>>

\* a step of the classification raises: the level is None, the features are
\* not a dict, or the record is analysis-worthy and its message or its
\* source is None
ClassificationRaises(log, processed_log) ==
    \/ ~IsStr(Get(log, "level", Str("")))
    \/ ~IsDict(Get(processed_log, "features", Dict([x \in {} |-> 0])))
    \/ /\ HasErrorLevel(log) \/ ErrorKeywordFlag(processed_log)
       /\ \/ ~IsStr(Get(log, "message", Str("")))
          \/ ~IsStr(Get(log, "source", Str("")))

-----------------------------------------------------------------------------
(* Claims about the fit state of an instance (SpecLife) *)

\* C11: over any sequence of detect_anomalies calls on one instance the fit
\* state is monotone: is_fitted never returns to false; it becomes true only
\* through a successful load at construction or a successful fit; a fit is
\* attempted only by a call that finds the model unfitted, and a failed fit
\* leaves it unfitted; once is_fitted is true no call fits the model or the
\* scaler again, so at most one successful fit happens per instance.
C11_FitStateMonotone ==
    /\ [][ /\ is_fitted => is_fitted'
           /\ (~is_fitted /\ is_fitted') => inst'.fits = inst.fits + 1
           /\ inst'.attempts # inst.attempts => ~is_fitted
           /\ (inst'.attempts # inst.attempts /\ inst'.fits = inst.fits) => ~is_fitted'
           /\ is_fitted => /\ inst'.fits = inst.fits
                           /\ inst'.scaler_fits = inst.scaler_fits ]_vars
    /\ [](inst.fits <= 1)
    /\ []((is_fitted /\ inst.fits = 0) => inst.loaded)

\* a call fitted the model and the next call, on another batch that reaches
\* the outlier model, did not fit it again
C11_Witness ==
    /\ inst.calls = 2
    /\ is_fitted
    /\ inst.fits = 1
    /\ inst.attempts = 1
    /\ logs # <<>>
    /\ logs # inst.trained_on
    /\ ~_rule_based_detection(logs).raised
    /\ ~_extract_enhanced_ml_features_raises(logs)

\* the batch reaches the outlier model: neither the rule scorer nor the
\* extraction of the feature matrix raises on it
ReachesModel(batch) ==
    /\ batch # <<>>
    /\ ~_rule_based_detection(batch).raised
    /\ ~_extract_enhanced_ml_features_raises(batch)

C25_PredictsInScaledSpace ==
    /\ inst.fit_inputs \subseteq {"scaled"}
    /\ inst.predict_inputs \subseteq {"scaled"}

-----------------------------------------------------------------------------
(* Claims about concurrent calls (SpecConc) *)

\* C12: when several batches are scored concurrently on one instance, fit,
\* predict and save are mutually exclusive: no two threads are inside
\* _fit_model at the same time, no thread predicts while another thread is
\* fitting the model or the scaler, and starting from an unfitted model
\* only one of the calls fits it.
C12_FitPredictSaveExclusive ==
    /\ \A t, u \in Threads :
          t # u => ~(pc[t] \in FitStatements /\ pc[u] \in FitStatements)
    /\ \A t, u \in Threads :
          t # u => ~(pc[t] = "predict" /\ pc[u] \in {"scale", "fit"})
    /\ inst.fits <= 1

-----------------------------------------------------------------------------
(* Claims about the scores of detect_anomalies (Spec) *)

\* C16: every score that detect_anomalies returns lies in [0, 1]: the rule
\* scores are among 0.1, 0.5, 0.6, 0.7, 0.8 and 0.9, the normalized scores
\* of the outlier model lie in [0, 1], the default scores are 0.0, and the
\* combiner returns the max or the min of those, on every path.
C16_ScoresInUnitInterval ==
    pc = "done" =>
        /\ \A i \in 1..Len(result.scores) : result.scores[i] \in 0..1000
        /\ \A i \in 1..Len(rule_out.scores) :
              rule_out.scores[i] \in {100, 500, 600, 700, 800, 900}
        /\ \A i \in 1..Len(ml_out.scores) : ml_out.scores[i] \in 0..1000
        /\ \A i \in 1..Min(Len(result.scores), Min(Len(rule_out.scores), Len(ml_out.scores))) :
              result.scores[i] \in {rule_out.scores[i], ml_out.scores[i]}

\* a batch for which the outlier model returned unequal raw scores, so that
\* a normalized score of 1.0 reached the result
C16_Witness ==
    /\ pc = "done"
    /\ Len(logs) = 2
    /\ ml_env.scores[1] # ml_env.scores[2]
    /\ \E i \in 1..Len(result.scores) :
          /\ i <= Len(ml_out.scores)
          /\ ml_out.scores[i] = 1000
          /\ result.scores[i] = 1000

-----------------------------------------------------------------------------
(* Claims about the category step (SpecMatch) *)

\* whether some pattern of the category matches the message
CategoryHit(cat, m) ==
    \E j \in 1..Len(cat.patterns) : SearchStart(cat.patterns[j], m) # 0

\* C17: _match_error_patterns_with_score returns exactly the categories that
\* have at least one matching pattern, each once and with the maximum of
\* the scores of its patterns, ordered by score descending; categories
\* with equal scores keep the declaration order (database, network,
\* memory, authentication, performance, application).
C17_MatchedSortedStable ==
    pc = "done" =>
        LET m == Lower(in_log.message[2])
            r == result.matched
            cats == error_pattern_categories
        IN /\ {r[i][1] : i \in 1..Len(r)} = {k \in 1..Len(cats) : CategoryHit(cats[k], m)}
           /\ \A i, j \in 1..Len(r) : r[i][1] = r[j][1] => i = j
           /\ \A i \in 1..Len(r) :
                 /\ \E j \in 1..Len(cats[r[i][1]].patterns) :
                       r[i][2] = PatternScore(cats[r[i][1]].patterns[j], m)
                 /\ \A j \in 1..Len(cats[r[i][1]].patterns) :
                       r[i][2] >= PatternScore(cats[r[i][1]].patterns[j], m)
                 /\ r[i][2] \in 1..ScoreDen(m)
           /\ \A i, j \in 1..Len(r) :
                 i < j => \/ r[i][2] > r[j][2]
                          \/ r[i][2] = r[j][2] /\ r[i][1] < r[j][1]

\* a message that matched three categories or more, two of them with equal
\* scores, and one that is declared later placed before one declared
\* earlier because its score is higher
C17_Witness ==
    /\ pc = "done"
    /\ Len(result.matched) >= 3
    /\ \E i, j \in 1..Len(result.matched) :
          i < j /\ result.matched[i][2] = result.matched[j][2]
    /\ \E i, j \in 1..Len(result.matched) :
          /\ i < j
          /\ result.matched[i][1] > result.matched[j][1]
          /\ result.matched[i][2] > result.matched[j][2]

\* the number of entries a category with score num / den contributes
Share(num, den) ==
    IF 10 * num > 7 * den THEN 3
    ELSE IF 10 * num > 5 * den /\ 10 * num <= 7 * den THEN 2
    ELSE 1

RECURSIVE SharesBefore(_, _, _)
\* the number of entries the first i - 1 matched categories contribute
SharesBefore(matched, den, i) ==
    IF i <= 1 THEN 0
    ELSE SharesBefore(matched, den, i - 1) + Share(matched[i - 1][2], den)

\* C18: for each matched category, taken in sorted order, the category step
\* of analyze contributes exactly the first N entries of its static
\* root-cause list and the first N entries of its static recommendation
\* list, with N = 3 if the score > 0.7, N = 2 if 0.5 < score <= 0.7 and
\* N = 1 if score <= 0.5 (strict thresholds); for the message 'Database
\* connection failed: Connection timeout after 30 seconds' the database
\* category is matched and its contribution includes 'Database connection
\* timeout'.
C18_TopNPerCategory ==
    pc = "done" =>
        LET m == Lower(in_log.message[2])
            r == result.matched
            den == ScoreDen(m)
            cats == error_pattern_categories
        IN /\ Len(result.root_causes) = SharesBefore(r, den, Len(r) + 1)
           /\ Len(result.recommendations) = SharesBefore(r, den, Len(r) + 1)
           /\ \A i \in 1..Len(r) : \A n \in 1..Share(r[i][2], den) :
                 /\ result.root_causes[SharesBefore(r, den, i) + n]
                       = cats[r[i][1]].root_causes[n]
                 /\ result.recommendations[SharesBefore(r, den, i) + n]
                       = cats[r[i][1]].recommendations[n]
           /\ in_log.message[2] = MsgScenario1 =>
                 \E i \in 1..Len(r) :
                    /\ cats[r[i][1]] = database_category
                    /\ \E n \in 1..Share(r[i][2], den) :
                          /\ cats[r[i][1]].root_causes[n] = "Database connection timeout"
                          /\ result.root_causes[SharesBefore(r, den, i) + n]
                                = "Database connection timeout"

\* a message whose only matched category has a score of exactly 0.7 and
\* contributed two entries to each list
C18_Witness ==
    /\ pc = "done"
    /\ Len(result.matched) = 1
    /\ 10 * result.matched[1][2] = 7 * ScoreDen(Lower(in_log.message[2]))
    /\ Len(result.root_causes) = 2
    /\ Len(result.recommendations) = 2

-----------------------------------------------------------------------------
(* Claims about the generic fallback (SpecAnalyze) *)

\* the lower-cased message of a record whose message is a string
MessageOf(log) == Lower(Get(log, "message", Str(""))[2])

\* the record is analysis-worthy and no step of its classification raises
Classified(log, processed_log) ==
    /\ ~ClassificationRaises(log, processed_log)
    /\ HasErrorLevel(log) \/ ErrorKeywordFlag(processed_log)

SomeCategoryMatches(m) ==
    \E k \in 1..Len(error_pattern_categories) :
        CategoryHit(error_pattern_categories[k], m)

GenericStrings ==
    { "Operation failed to complete", "Unhandled exception occurred",
      "System error detected", "Unexpected system behavior",
      "Check system logs for additional context",
      "Verify system resources and dependencies",
      "Review recent changes and deployments" }

\* C19: the generic fallback is applied exactly when the level is ERROR,
\* FATAL or CRITICAL and no category matched: the root causes then start
\* with one generic cause for each of 'failed', 'exception', 'error' that
\* occurs in the message, in that order, or with 'Unexpected system
\* behavior' when none occurs, and the recommendations start with the three
\* generic recommendations; when some category matched, or the level of an
\* analysis-worthy record is not an error level, the result holds no
\* generic cause and no generic recommendation.
C19_GenericFallbackExactly ==
    (pc = "done" /\ Classified(in_log, in_processed)) =>
        LET m == MessageOf(in_log)
            found ==
              (IF Contains("failed", m) THEN <<"Operation failed to complete">> ELSE <<>>)
              \o (IF Contains("exception", m) THEN <<"Unhandled exception occurred">> ELSE <<>>)
              \o (IF Contains("error", m) THEN <<"System error detected">> ELSE <<>>)
            generic == IF found = <<>> THEN <<"Unexpected system behavior">> ELSE found
        IN IF HasErrorLevel(in_log) /\ ~SomeCategoryMatches(m)
           THEN /\ Len(result.root_causes) >= Len(generic)
                /\ SubSeq(result.root_causes, 1, Len(generic)) = generic
                /\ \A i \in (Len(generic) + 1)..Len(result.root_causes) :
                      result.root_causes[i] \notin GenericStrings
                /\ Len(result.recommendations) >= 3
                /\ SubSeq(result.recommendations, 1, 3) =
                      << "Check system logs for additional context",
                         "Verify system resources and dependencies",
                         "Review recent changes and deployments" >>
           ELSE /\ \A i \in 1..Len(result.root_causes) :
                      result.root_causes[i] \notin GenericStrings
                /\ \A i \in 1..Len(result.recommendations) :
                      result.recommendations[i] \notin GenericStrings

\* an ERROR record whose message matches no category and holds 'failed' and
\* 'exception' got the two generic causes and the generic recommendations
C19_Witness ==
    /\ pc = "done"
    /\ Classified(in_log, in_processed)
    /\ Get(in_log, "level", None) = Str("ERROR")
    /\ Get(in_log, "message", None) = Str("Job failed with exception")
    /\ SubSeq(result.root_causes, 1, 2) =
          <<"Operation failed to complete", "Unhandled exception occurred">>
    /\ Len(result.recommendations) >= 3

\* C29: for every record whose level is ERROR, FATAL or CRITICAL, analyze
\* returns a non-empty root_causes list and a non-empty recommendations
\* list: a matched category contributes at least one of each, or the
\* generic fallback does, or the exception path returns the generic pair.
C29_ErrorLevelHasCauses ==
    (pc = "done" /\ HasErrorLevel(in_log)) =>
        /\ Len(result.root_causes) >= 1
        /\ Len(result.recommendations) >= 1
        /\ (Classified(in_log, in_processed) /\ SomeCategoryMatches(MessageOf(in_log))) =>
              \E k \in 1..Len(error_pattern_categories) :
                 /\ result.root_causes[1] = error_pattern_categories[k].root_causes[1]
                 /\ result.recommendations[1] =
                       error_pattern_categories[k].recommendations[1]
        /\ (Classified(in_log, in_processed) /\ ~SomeCategoryMatches(MessageOf(in_log))) =>
              /\ result.root_causes[1] \in GenericStrings
              /\ result.recommendations[1] \in GenericStrings
        /\ ClassificationRaises(in_log, in_processed) =>
              /\ result.root_causes = <<"Unknown error occurred">>
              /\ result.recommendations = <<"Review log details and system status">>

\* an ERROR record that matches no category, no source group and no
\* context trigger got its lists from the generic fallback alone
C29_Witness ==
    /\ pc = "done"
    /\ Get(in_log, "level", None) = Str("ERROR")
    /\ Get(in_log, "message", None) = Str("disk error")
    /\ Get(in_log, "source", None) = Str("worker")
    /\ Classified(in_log, in_processed)
    /\ result.root_causes = <<"System error detected">>
    /\ Len(result.recommendations) = 3

-----------------------------------------------------------------------------
(* Claims about the source step (SpecSource) *)

\* whether a keyword of the group occurs in the lower-cased source or in
\* the lower-cased message
GroupHit(group, source, message) ==
    \E j \in 1..Len(group.keywords) :
        \/ Contains(group.keywords[j], Lower(source))
        \/ Contains(group.keywords[j], Lower(message))

\* C20: the source step is first-match-wins: at most one group contributes,
\* and it is the first group in declared order (auth, database, payment,
\* api) that has a keyword occurring in the lower-cased source or in the
\* message; a record that matches keywords of several groups receives only
\* the causes and recommendations of the earliest one, whereas every
\* matched category contributes to the category step.
C20_SourceFirstMatchWins ==
    pc = "done" =>
        LET src == in_log.source[2]
            m == in_log.message[2]
            groups == source_patterns
            hits == {g \in 1..Len(groups) : GroupHit(groups[g], src, m)}
            cats == error_pattern_categories
        IN /\ [g \in 1..Len(groups) |-> groups[g].causes[1]] =
                 << "Authentication service issue", "Database service issue",
                    "Payment processing issue", "API service issue" >>
           /\ hits = {} =>
                 /\ result.by_source.causes = <<>>
                 /\ result.by_source.recommendations = <<>>
           /\ \A g \in hits :
                 (\A h \in hits : g <= h) =>
                    /\ result.by_source.causes = groups[g].causes
                    /\ result.by_source.recommendations = groups[g].recommendations
                    /\ \A h \in 1..Len(groups) : h # g =>
                          /\ \A i \in 1..Len(groups[h].causes) :
                                ~\E j \in 1..Len(result.by_source.causes) :
                                    result.by_source.causes[j] = groups[h].causes[i]
                          /\ \A i \in 1..Len(groups[h].recommendations) :
                                ~\E j \in 1..Len(result.by_source.recommendations) :
                                    result.by_source.recommendations[j]
                                        = groups[h].recommendations[i]
           /\ \A k \in 1..Len(cats) :
                 CategoryHit(cats[k], Lower(m)) =>
                    \E j \in 1..Len(result.root_causes) :
                        result.root_causes[j] = cats[k].root_causes[1]

\* the source 'api-gateway' with a message that holds 'user': the auth
\* group and the api group have a keyword, the auth group alone contributed
C20_Witness ==
    /\ pc = "done"
    /\ in_log.source = Str("api-gateway")
    /\ Contains("user", Lower(in_log.message[2]))
    /\ GroupHit(source_patterns[4], in_log.source[2], in_log.message[2])
    /\ result.by_source.causes =
          <<"Authentication service issue", "User session problem">>
    /\ result.by_source.recommendations =
          <<"Check authentication service health", "Verify user session management">>

-----------------------------------------------------------------------------
(* Claims about the contextual step (SpecContext) *)

\* whether the string is one of the entries of the sequence
IsIn(x, items) == \E j \in 1..Len(items) : items[j] = x

\* C21: in the contextual step each trigger contributes its cause whenever
\* its own condition on the record holds, independently of the others: a
\* message longer than 1000 adds the verbose-message cause, one shorter
\* than 10 the minimal-information cause; any of '[', ']', '{', '}' in the
\* message adds 'Structured data parsing issue'; an HTTP status code adds
\* the HTTP cause and a dotted-quad address adds the network-address cause
\* (a message that holds both gets both).
C21_ContextTriggersIndependent ==
    pc = "done" =>
        LET m == in_log.message[2]
        IN /\ Len(m) > 1000 =>
                 IsIn("Verbose error message indicates complex issue", result.causes)
           /\ Len(m) < 10 =>
                 IsIn("Minimal error information available", result.causes)
           /\ ContainsAny(<<"[", "]", "{", "}">>, m) =>
                 IsIn("Structured data parsing issue", result.causes)
           /\ HasHttpStatus(m) => IsIn("HTTP status code error", result.causes)
           /\ HasIpAddress(m) => IsIn("Network address related issue", result.causes)

-----------------------------------------------------------------------------
(* Claims about the outlier model (SpecML) *)

\* the call reached predict and score_samples and they returned
Predicted ==
    /\ pc = "done"
    /\ Len(logs) > 0
    /\ \A i \in 1..Len(logs) : IsDict(Get(logs[i], "features", None))
    /\ is_fitted
    /\ ml_env.predict_ok

\* C22: _normalize_scores maps the raw scores of a batch to
\* (max - raw) / (max - min): every result lies in [0, 1], the record with
\* the lowest raw score gets 1 and the one with the highest gets 0, the
\* mapping reverses the order of the raw scores, and when all raw scores of
\* the batch are equal (a batch of one record included) every normalized
\* score is 0; the ML anomaly flag of a record is true iff its label is -1.
C22_NormalizedScores ==
    Predicted =>
        LET raw == ml_env.scores
            n == Len(raw)
            lo == CHOOSE x \in {raw[i] : i \in 1..n} : \A j \in 1..n : x <= raw[j]
            hi == CHOOSE x \in {raw[i] : i \in 1..n} : \A j \in 1..n : x >= raw[j]
        IN /\ Len(ml_out.scores) = n /\ Len(ml_out.is_anomaly) = n
           /\ \A i \in 1..n :
                 /\ ml_out.scores[i] \in 0..1000
                 /\ ml_out.is_anomaly[i] <=> ml_env.predictions[i] = -1
                 /\ lo = hi => ml_out.scores[i] = 0
                 /\ lo < hi =>
                       /\ ml_out.scores[i] = ((hi - raw[i]) * 1000) \div (hi - lo)
                       /\ raw[i] = lo => ml_out.scores[i] = 1000
                       /\ raw[i] = hi => ml_out.scores[i] = 0
           /\ \A i, j \in 1..n : raw[i] < raw[j] => ml_out.scores[i] > ml_out.scores[j]

\* a batch of three records with three different raw scores: the lowest got
\* 1, the highest 0 and the third a score in between; a record labelled 1
\* got the highest normalized score
C22_Witness ==
    /\ Predicted
    /\ Len(logs) = 3
    /\ ml_env.scores = <<-7, -10, 0>>
    /\ ml_env.predictions = <<-1, 1, 1>>
    /\ ml_out.scores = <<700, 1000, 0>>
    /\ ml_out.is_anomaly = <<TRUE, FALSE, FALSE>>

-----------------------------------------------------------------------------
(* Claims about repeated calls of the combiner (SpecRepeat) *)

\* the arrays cut down to the record at index i (empty when there is none)
OnlyIndex(results, i) ==
    Results(IF i <= Len(results.is_anomaly) THEN <<results.is_anomaly[i]>> ELSE <<>>,
            IF i <= Len(results.scores) THEN <<results.scores[i]>> ELSE <<>>)

\* C24: the combiner is a pure per-index function: its output at index i
\* depends only on the rule verdict and score and the ML verdict and score
\* at index i, two calls with identical inputs return identical outputs,
\* permuting the records of both input arrays permutes the output the same
\* way, and a call changes neither the detector state nor an input array.
C24_CombinerIsPure ==
    /\ [](pc \in {"twice", "done"} => result.second = result.first)
    /\ [](pc = "done" => result.permuted = Reordered(result.first, result.order))
    /\ [](pc # "start" =>
            \A i \in 1..Len(rule_in.is_anomaly) :
                /\ <<result.first.is_anomaly[i], result.first.scores[i]>> =
                      LET alone == _combine_results(OnlyIndex(rule_in, i),
                                                    OnlyIndex(ml_in, i))
                      IN <<alone.is_anomaly[1], alone.scores[1]>>
                /\ \A j \in 1..Len(ml_in.is_anomaly) :
                      (/\ i <= Len(ml_in.is_anomaly)
                       /\ rule_in.is_anomaly[i] = rule_in.is_anomaly[j]
                       /\ rule_in.scores[i] = rule_in.scores[j]
                       /\ ml_in.is_anomaly[i] = ml_in.is_anomaly[j]
                       /\ ml_in.scores[i] = ml_in.scores[j])
                      => /\ result.first.is_anomaly[i] = result.first.is_anomaly[j]
                         /\ result.first.scores[i] = result.first.scores[j])
    /\ [][/\ rule_in' = rule_in /\ ml_in' = ml_in
          /\ is_fitted' = is_fitted /\ inst' = inst]_vars

\* two records with different verdicts were combined twice and then in the
\* reverse order, on a fitted detector
C24_Witness ==
    /\ pc = "done"
    /\ is_fitted
    /\ Len(rule_in.is_anomaly) = 2
    /\ result.order = <<2, 1>>
    /\ result.first.is_anomaly = <<TRUE, FALSE>>
    /\ result.first.scores[1] # result.first.scores[2]
    /\ result.second = result.first
    /\ result.permuted.is_anomaly = <<FALSE, TRUE>>

====
